---- MODULE Spec2Model ----
(***************************************************************************)
(* TES-forms: a state-machine model of the resilient data-access layer     *)
(* (src/prismaClient.js), process startup (server.js variants) and the     *)
(* forms controller (src/controllers/formsController.js).                  *)
(*                                                                         *)
(* Node runs one thread: code between two awaits is one atomic step, so    *)
(* each action below is the code from one suspension point to the next.    *)
(***************************************************************************)
EXTENDS Integers, Sequences, FiniteSets, TLC

(***************************************************************************)
(* Bounds of the model.                                                    *)
(***************************************************************************)
\* largest maxRetries argument handed to withRetry
MaxAttempts == 3

\* the requests whose withRetry calls are in flight together: one can be
\* replacing the client while the other waits on it
Callers == {"c1", "c2"}

(***************************************************************************)
(* Errors an operation can reject with.  An error is its Prisma `code` and *)
(* the set of the phrases withRetry searches for that its message holds.   *)
(***************************************************************************)
CantReach == "Can't reach database"
TimedOut == "Timed out fetching"
ConnPool == "connection pool"

NoError == [code |-> "none", msg |-> {"(no error)"}]
\* PrismaClientKnownRequestError P2024: "Timed out fetching a new connection
\* from the connection pool."
ErrP2024 == [code |-> "P2024", msg |-> {TimedOut, ConnPool}]
\* a pool error that carries no code, only the message
ErrPoolMsg == [code |-> "none", msg |-> {ConnPool}]
\* PrismaClientKnownRequestError P1001
ErrP1001 == [code |-> "P1001", msg |-> {CantReach}]
\* PrismaClientInitializationError: message only, no `code` property
ErrReachMsg == [code |-> "none", msg |-> {CantReach}]
\* P2002 unique constraint violation
ErrP2002 == [code |-> "P2002", msg |-> {}]
\* what `new PrismaClient(...)` throws (constructor validation)
ErrConstructor == [code |-> "none", msg |-> {"PrismaClient constructor"}]

OpErrors == {ErrP2024, ErrPoolMsg, ErrP1001, ErrReachMsg, ErrP2002}

VARIABLES
    activePrisma,   \* identity of the module-level client object
    isConnected,
    isRecreating,
    clients,        \* number of PrismaClient objects constructed so far
    wr,             \* wr[c]: the frame of caller c's withRetry call
    st,             \* process startup: connectWithRetry and app.listen
    store,          \* the Record Store: the rows of table applications
    origin,         \* history: origin[id] is the request that last wrote row id
    rq,             \* the forms request being handled, and its response
    outage,         \* the store attempts to come that fail transiently
    input,          \* the form type and the fields a user submits
    clock,          \* the server's time zone and the instants rows are created at
    other,          \* a second forms request, suspended at an await
    pdf,            \* the generatePDF invocation and its rendering engine
    datasource      \* DATABASE_URL and what getDatasourceUrl made of it

vars == <<activePrisma, isConnected, isRecreating, clients, wr, st,
          store, origin, rq, outage, input, clock, other, pdf, datasource>>

\* the state of the forms controller
forms == <<store, origin, rq, outage, input, clock, other>>
\* what the data-access actions leave alone
outsideDal == <<st, forms, pdf, datasource>>
\* what the startup actions leave alone
outsideStartup == <<activePrisma, isRecreating, clients, wr, forms, pdf, datasource>>
\* what the forms actions leave alone
outsideForms ==
    <<activePrisma, isConnected, isRecreating, clients, wr, st, other, pdf,
      datasource>>

(***************************************************************************)
(* withRetry's classification of a caught error.                           *)
(***************************************************************************)
\* mutant: every error is taken to be retryable
isRetryableAnything(error) == TRUE

isRetryable(error) ==
    \/ CantReach \in error.msg
    \/ TimedOut \in error.msg
    \/ ConnPool \in error.msg
    \/ error.code = "P2024"
    \/ error.code = "P1001"

\* mutant: only the code is looked at, the message is not
isUnreachableByCodeOnly(error) == error.code = "P1001"

\* mutant: every retryable error is taken to be a hard one
isUnreachableWhenRetryable(error) == isRetryable(error)

\* line 171
isUnreachable(error) ==
    error.code = "P1001" \/ CantReach \in error.msg

(***************************************************************************)
(* The two retryable classes as the specification names them (section 4.1) *)
(* and the bookkeeping of what each call has seen.  These are read by the  *)
(* properties only; no action's guard depends on them.                     *)
(***************************************************************************)
PoolClass(e) ==
    e.code = "P2024" \/ TimedOut \in e.msg \/ ConnPool \in e.msg

UnreachableClass(e) ==
    e.code = "P1001" \/ CantReach \in e.msg

Observe(f, e) ==
    [f EXCEPT !.lastError = e,
              !.poolFails = @ + (IF PoolClass(e) /\ ~UnreachableClass(e) THEN 1 ELSE 0),
              !.hardFails = @ + (IF UnreachableClass(e) THEN 1 ELSE 0),
              !.otherFails = @ + (IF PoolClass(e) \/ UnreachableClass(e) THEN 0 ELSE 1)]

IdleFrame ==
    [pc |-> "idle", maxRetries |-> 0, attempt |-> 0, lastError |-> NoError,
     thrown |-> NoError, startClient |-> 0, opClient |-> 0,
     invocations |-> 0, recreateCalls |-> 0, recreateReturns |-> 0,
     delays |-> 0, created |-> 0, waited |-> 0,
     poolFails |-> 0, hardFails |-> 0, otherFails |-> 0,
     closed |-> "none", connected |-> "none"]

(***************************************************************************)
(* JavaScript values as the forms controller meets them: a value is its    *)
(* type, its characters when it is a string and its number when it is a    *)
(* number.  A string is a sequence of characters; two blocks of characters *)
(* stand for the long runs a signature image is made of (see TokenLen).    *)
(***************************************************************************)
JsValue(t, s, n) == [t |-> t, s |-> s, n |-> n]
Undefined == JsValue("undefined", <<>>, 0)
Null == JsValue("null", <<>>, 0)
NaN == JsValue("NaN", <<>>, 0)
\* Infinity and -Infinity: n is the sign
Infinity == JsValue("Infinity", <<>>, 1)
MinusInfinity == JsValue("Infinity", <<>>, -1)
Str(s) == JsValue("string", s, 0)
Num(n) == JsValue("number", <<>>, n)
EmptyString == Str(<<>>)
\* the object {}
EmptyObject == [k \in {} |-> Undefined]

\* no request is being handled
IdleRequest ==
    [op |-> "none", pc |-> "idle", type |-> "", id |-> 0, action |-> "",
     src |-> "", search |-> Undefined, from |-> 0, to |-> 0,
     status |-> 0, view |-> "", location |-> "", errors |-> {},
     formData |-> EmptyObject, data |-> EmptyObject, listed |-> <<>>,
     before |-> {},
     filename |-> EmptyString, rows |-> 0,
     strict |-> FALSE, validations |-> 0, rendered |-> 0, written |-> 0,
     faults |-> 0, outageAtCall |-> 0, calls |-> 0, concurrent |-> FALSE]

\* getDatasourceUrl is not looked at
NoDatasource == [pc |-> "unset"]

\* generatePDF has not been called
PdfIdle ==
    [pc |-> "idle", type |-> "", logoBase64 |-> "", browser |-> "none",
     pdfBuffer |-> FALSE, result |-> "none", message |-> <<>>, failed |-> {},
     steps |-> <<>>, waitUntil |-> {},
     calls |-> 0, engines |-> 0]

\* a server on UTC that is to create no row
IdleClock == [tz |-> 0, at |-> <<>>]

\* no request has been made and the table is empty
FormsIdle ==
    /\ store = <<>>
    /\ origin = <<>>
    /\ rq = IdleRequest
    /\ other = IdleRequest
    /\ outage = 0
    /\ input = [type |-> "rejoining", body |-> EmptyObject]
    /\ clock = IdleClock
    /\ pdf = PdfIdle
    /\ datasource = NoDatasource

\* the module has been loaded: `let activePrisma = createPrismaClient()`
InitDal ==
    /\ activePrisma = 1
    /\ clients = 1
    /\ isConnected = FALSE
    /\ isRecreating = FALSE
    /\ wr = [c \in Callers |-> IdleFrame]

\* startup is over and the server is listening
ServerUp ==
    [variant |-> "connectFirst", production |-> FALSE, pc |-> "up",
     maxRetries |-> 0, attempt |-> 0, slow |-> FALSE, result |-> "none",
     delay |-> 0, waits |-> <<>>, connectCalls |-> 0, connectFails |-> 0,
     listening |-> TRUE, keepAlive |-> FALSE]

Init ==
    /\ InitDal
    /\ st = ServerUp
    /\ FormsIdle

(***************************************************************************)
(* withRetry (src/prismaClient.js:148-188), one frame per caller.          *)
(***************************************************************************)
\* mutant: a retryable error is retried on the last attempt too
ShouldRetryAlways(f, error) == isRetryable(error)

\* line 168: retry only a retryable error that is not on the last attempt
ShouldRetry(f, error) ==
    isRetryable(error) /\ f.attempt < f.maxRetries

\* mutant: the flag is not looked at
MutexNeverHeld == FALSE

\* line 86: the mutex test at the top of recreatePrismaClient
MutexHeld == isRecreating

\* mutant: the handle is the client the caller saw when withRetry began
prismaAtStart(f) == f.startClient

\* lines 70-79: the get trap of prismaProxy reads `activePrisma[prop]` at
\* each access and binds a function to the same client
prismaProxy(f) == activePrisma

\* the caller's call of queryFn(): `prisma.<model>.<method>(...)` goes
\* through the handle at this moment
InvokeOperation(f) ==
    [f EXCEPT !.pc = "op", !.invocations = @ + 1, !.opClient = prismaProxy(f),
              !.closed = "none", !.connected = "none"]

\* withRetry(queryFn, maxRetries): the first pass of the loop, up to the await
Start(c, m) ==
    /\ UNCHANGED outsideDal
    /\ wr[c].pc = "idle"
    /\ wr' = [wr EXCEPT ![c] =
                InvokeOperation([IdleFrame EXCEPT !.maxRetries = m, !.attempt = 1,
                                                  !.startClient = activePrisma])]
    /\ UNCHANGED <<activePrisma, isConnected, isRecreating, clients>>

\* line 152: queryFn() resolved, withRetry returns its value
OpSucceeds(c) ==
    /\ UNCHANGED outsideDal
    /\ wr[c].pc = "op"
    /\ wr' = [wr EXCEPT ![c].pc = "returned"]
    /\ UNCHANGED <<activePrisma, isConnected, isRecreating, clients>>

\* lines 85-97: recreatePrismaClient() up to its first await
RecreateEnter(c, f) ==
    IF MutexHeld
    THEN /\ wr' = [wr EXCEPT ![c] = [f EXCEPT !.pc = "rc_wait",
                                              !.recreateCalls = @ + 1,
                                              !.waited = @ + 1]]
         /\ UNCHANGED isRecreating
    ELSE /\ isRecreating' = TRUE
         /\ wr' = [wr EXCEPT ![c] = [f EXCEPT !.pc = "rc_disconnect",
                                              !.recreateCalls = @ + 1]]

\* lines 153-184: queryFn() rejected with `error`; the catch block up to its
\* first await, or to its throw
OpFails(c, error) ==
    /\ UNCHANGED outsideDal
    /\ wr[c].pc = "op"
    /\ LET f == Observe(wr[c], error)
       IN  IF ShouldRetry(f, error)
           THEN IF isUnreachable(error)
                THEN RecreateEnter(c, f)
                ELSE /\ wr' = [wr EXCEPT ![c] = [f EXCEPT !.pc = "sleep",
                                                          !.delays = @ + 1]]
                     /\ UNCHANGED isRecreating
           ELSE /\ wr' = [wr EXCEPT ![c] = [f EXCEPT !.pc = "rejected",
                                                     !.thrown = error]]
                /\ UNCHANGED isRecreating
    /\ UNCHANGED <<activePrisma, isConnected, clients>>

\* lines 88-91: a waiter's 200 ms timer fired; it tests the flag again
PollWait(c) ==
    /\ UNCHANGED outsideDal
    /\ wr[c].pc = "rc_wait"
    /\ IF isRecreating
       THEN UNCHANGED wr
       ELSE wr' = [wr EXCEPT ![c].pc = "sleep",
                             ![c].recreateReturns = @ + 1,
                             ![c].delays = @ + 1]
    /\ UNCHANGED <<activePrisma, isConnected, isRecreating, clients>>

\* lines 97-109: $disconnect() settled (either way); createPrismaClient()
\* returned the new client, which is assigned and asked to connect
DisconnectSettles(c, ok) ==
    /\ UNCHANGED outsideDal
    /\ wr[c].pc = "rc_disconnect"
    /\ clients' = clients + 1
    /\ activePrisma' = clients + 1
    /\ isConnected' = FALSE
    /\ wr' = [wr EXCEPT ![c].pc = "rc_connect", ![c].created = @ + 1,
                        ![c].closed = IF ok THEN "yes" ELSE "no"]
    /\ UNCHANGED isRecreating

\* line 104: createPrismaClient() threw; nothing catches it inside
\* recreatePrismaClient, and withRetry's catch block is where it was awaited,
\* so the withRetry call rejects with it; isRecreating is left set
CreateThrows(c) ==
    /\ UNCHANGED outsideDal
    /\ wr[c].pc = "rc_disconnect"
    /\ wr' = [wr EXCEPT ![c].pc = "rejected", ![c].thrown = ErrConstructor]
    /\ UNCHANGED <<activePrisma, isConnected, isRecreating, clients>>

\* mutant: the new client is taken to be connected whatever $connect did
ConnectedWhatever(ok) == TRUE

\* lines 109-113: `isConnected = true` is reached only when the awaited
\* $connect() resolved; the catch block leaves the flag as it is
ConnectedAfter(ok) == IF ok THEN TRUE ELSE isConnected

\* lines 109-116: $connect() of the new client settled; the finally block
\* releases the mutex; back in withRetry the 2000 ms wait starts (line 174)
ConnectSettles(c, ok) ==
    /\ UNCHANGED outsideDal
    /\ wr[c].pc = "rc_connect"
    /\ isConnected' = ConnectedAfter(ok)
    /\ isRecreating' = FALSE
    /\ wr' = [wr EXCEPT ![c].pc = "sleep",
                        ![c].recreateReturns = @ + 1,
                        ![c].delays = @ + 1,
                        ![c].connected = IF ok THEN "yes" ELSE "no"]
    /\ UNCHANGED <<activePrisma, clients>>

\* lines 174/179 then 150-152: the wait is over, the loop's next pass calls
\* queryFn() again
TimerFires(c) ==
    /\ UNCHANGED outsideDal
    /\ wr[c].pc = "sleep"
    /\ wr' = [wr EXCEPT ![c] = InvokeOperation([wr[c] EXCEPT !.attempt = @ + 1])]
    /\ UNCHANGED <<activePrisma, isConnected, isRecreating, clients>>

Next ==
    \/ \E c \in Callers, m \in 1..MaxAttempts : Start(c, m)
    \/ \E c \in Callers : OpSucceeds(c)
    \/ \E c \in Callers, error \in OpErrors : OpFails(c, error)
    \/ \E c \in Callers : PollWait(c)
    \/ \E c \in Callers, ok \in BOOLEAN : DisconnectSettles(c, ok)
    \/ \E c \in Callers : CreateThrows(c)
    \/ \E c \in Callers, ok \in BOOLEAN : ConnectSettles(c, ok)
    \/ \E c \in Callers : TimerFires(c)

(***************************************************************************)
(* Process startup.  Two server files are in the repository:               *)
(*   connectFirst  startServer() awaits connectWithRetry() and then calls  *)
(*                 app.listen (src/unnamed/part_002:86-107)                *)
(*   listenFirst   app.listen is called at once and its callback probes    *)
(*                 the database (src/server.js:90-105)                     *)
(* connectWithRetry is src/prismaClient.js:122-142.                        *)
(***************************************************************************)
\* largest maxRetries argument handed to connectWithRetry
MaxConnectAttempts == 8

\* Math.min(3000 * Math.pow(2, attempt - 1), 30000)
Pow2(n) == IF n = 0 THEN 1 ELSE IF n = 1 THEN 2 ELSE IF n = 2 THEN 4
           ELSE IF n = 3 THEN 8 ELSE 16
Min(a, b) == IF a < b THEN a ELSE b
\* mutant: the delay doubles without a cap
BackoffUncapped(attempt) == 3000 * Pow2(Min(attempt - 1, 4))

Backoff(attempt) == Min(3000 * Pow2(Min(attempt - 1, 4)), 30000)

\* mutant: the loop gives up one attempt early
MoreAttemptsOffByOne(s) == s.attempt + 1 < s.maxRetries

\* lines 123 and 134: another pass of the loop follows this attempt
MoreAttempts(s) == s.attempt < s.maxRetries

\* mutant: startServer returns when the database could not be reached
ListenOnlyIfConnected(connected) == connected

\* part_002 lines 89-96: `connected` is only logged, app.listen is called
\* whatever its value
ProceedsToListen(connected) == TRUE

\* the call activePrisma.$connect() of one pass of the loop
CallConnect(s, slow) ==
    [s EXCEPT !.pc = "connecting", !.slow = slow, !.connectCalls = @ + 1]

\* connectWithRetry returned `connected` to startServer, which goes on
\* synchronously to app.listen
Returned(s, connected) ==
    [s EXCEPT !.result = IF connected THEN "true" ELSE "false",
              !.pc = IF ProceedsToListen(connected) THEN "binding" ELSE "exited"]

InitStartup ==
    /\ InitDal
    /\ FormsIdle
    /\ \E variant \in {"connectFirst", "listenFirst"}, production \in BOOLEAN,
          m \in 0..MaxConnectAttempts :
           st = [ServerUp EXCEPT
                   !.variant = variant, !.production = production,
                   !.listening = FALSE,
                   !.maxRetries = IF variant = "connectFirst" THEN m ELSE 0,
                   !.pc = IF variant = "connectFirst" THEN "start" ELSE "binding"]

\* startServer(): connectWithRetry(maxRetries) is entered
StartServer(slow) ==
    /\ st.pc = "start"
    /\ st' = IF st.maxRetries >= 1
             THEN CallConnect([st EXCEPT !.attempt = 1], slow)
             ELSE Returned(st, FALSE)
    /\ UNCHANGED isConnected
    /\ UNCHANGED outsideStartup

\* the backend is waking up: the connect stays pending for a while
StillWaking ==
    /\ st.pc \in {"connecting", "probe_connect"}
    /\ st.slow
    /\ st' = [st EXCEPT !.slow = FALSE]
    /\ UNCHANGED isConnected
    /\ UNCHANGED outsideStartup

\* lines 125-128: $connect() resolved; return true
ConnectResolves ==
    /\ st.pc = "connecting"
    /\ ~st.slow
    /\ isConnected' = TRUE
    /\ st' = Returned(st, TRUE)
    /\ UNCHANGED outsideStartup

\* lines 129-141: $connect() rejected; wait and go round again, or leave
\* the loop and return false
ConnectRejects ==
    /\ st.pc = "connecting"
    /\ ~st.slow
    /\ LET s == [st EXCEPT !.connectFails = @ + 1,
                           !.delay = Backoff(st.attempt)]
       IN  st' = IF MoreAttempts(s)
                 THEN [s EXCEPT !.pc = "backoff", !.waits = Append(@, s.delay)]
                 ELSE Returned(s, FALSE)
    /\ UNCHANGED isConnected
    /\ UNCHANGED outsideStartup

\* line 136: the backoff timer fired; the next pass calls $connect()
BackoffElapses(slow) ==
    /\ st.pc = "backoff"
    /\ st' = CallConnect([st EXCEPT !.attempt = @ + 1], slow)
    /\ UNCHANGED isConnected
    /\ UNCHANGED outsideStartup

\* part_002 lines 96-104: the server is bound; the callback starts the
\* keep-alive scheduler in production
ListenCallback ==
    /\ st.pc = "binding"
    /\ st.variant = "connectFirst"
    /\ st' = [st EXCEPT !.pc = "up", !.listening = TRUE,
                        !.keepAlive = st.production]
    /\ UNCHANGED isConnected
    /\ UNCHANGED outsideStartup

\* server.js lines 90-98: the server is bound; the callback makes a client
\* of its own and awaits its $connect()
ListenCallbackProbe(slow) ==
    /\ st.pc = "binding"
    /\ st.variant = "listenFirst"
    /\ st' = [st EXCEPT !.pc = "probe_connect", !.listening = TRUE,
                        !.slow = slow, !.connectCalls = @ + 1]
    /\ UNCHANGED isConnected
    /\ UNCHANGED outsideStartup

\* server.js lines 99-100: the probe connected; it is disconnected again
ProbeResolves ==
    /\ st.pc = "probe_connect"
    /\ ~st.slow
    /\ st' = [st EXCEPT !.pc = "probe_disconnect"]
    /\ UNCHANGED isConnected
    /\ UNCHANGED outsideStartup

\* server.js lines 101-104: the probe's connect, or its disconnect, rejected
\* and the catch block logged it; or the disconnect resolved
ProbeEnds ==
    /\ \/ st.pc = "probe_connect" /\ ~st.slow
       \/ st.pc = "probe_disconnect"
    /\ st' = [st EXCEPT !.pc = "up",
                        !.connectFails = IF st.pc = "probe_connect"
                                         THEN @ + 1 ELSE @]
    /\ UNCHANGED isConnected
    /\ UNCHANGED outsideStartup

NextStartup ==
    \/ \E slow \in BOOLEAN : StartServer(slow)
    \/ StillWaking
    \/ ConnectResolves
    \/ ConnectRejects
    \/ \E slow \in BOOLEAN : BackoffElapses(slow)
    \/ ListenCallback
    \/ \E slow \in BOOLEAN : ListenCallbackProbe(slow)
    \/ ProbeResolves
    \/ ProbeEnds

\* timers fire, promises settle, the listening socket is bound
StartupFairness ==
    /\ WF_vars(\E slow \in BOOLEAN : StartServer(slow))
    /\ WF_vars(StillWaking)
    /\ WF_vars(ConnectResolves \/ ConnectRejects)
    /\ WF_vars(\E slow \in BOOLEAN : BackoffElapses(slow))
    /\ WF_vars(ListenCallback)
    /\ WF_vars(\E slow \in BOOLEAN : ListenCallbackProbe(slow))
    /\ WF_vars(ProbeResolves \/ ProbeEnds)

StartupSpec == InitStartup /\ [][NextStartup]_vars /\ StartupFairness

Spec == Init /\ [][Next]_vars

(***************************************************************************)
(* Scheduling: a timer that was set fires and a promise that was created   *)
(* settles; nothing forces a new request to arrive.                        *)
(***************************************************************************)
Fairness ==
    \A c \in Callers :
        /\ WF_vars(OpSucceeds(c) \/ \E error \in OpErrors : OpFails(c, error))
        /\ WF_vars(PollWait(c))
        /\ WF_vars((\E ok \in BOOLEAN : DisconnectSettles(c, ok)) \/ CreateThrows(c))
        /\ WF_vars(\E ok \in BOOLEAN : ConnectSettles(c, ok))
        /\ WF_vars(TimerFires(c))

FairSpec == Spec /\ Fairness

(***************************************************************************)
(* The forms controller (src/controllers/formsController.js).              *)
(***************************************************************************)
\* rows the table may hold
MaxRecords == 1
\* store attempts in a row that may fail transiently
MaxOutage == 1

\* withRetry(queryFn, maxRetries = 5)
DefaultMaxRetries == 5

VALID_TYPES == {"rejoining", "leave-expats", "leave-omani"}

normalizeType(type) ==
    IF type = "leave-expats" THEN "leave_expats"
    ELSE IF type = "leave-omani" THEN "leave_omani"
    ELSE type

(***************************************************************************)
(* Strings.                                                                *)
(***************************************************************************)
Digits == <<"0", "1", "2", "3", "4", "5", "6", "7", "8", "9">>

\* the eleven characters every accepted signature starts with
DataImage == "data:image/"
\* const maxSize = 500 * 1024
maxSize == 500 * 1024
\* a run of maxSize - 11 letters x: with DataImage in front of it the
\* string is exactly maxSize characters long
Filler == "xxx...x"
\* a run of 310 digits 9: the number it writes is above Number.MAX_VALUE,
\* which is written with 309 digits
Nines == "999...9"

TokenLen(ch) ==
    IF ch = DataImage THEN 11
    ELSE IF ch = Filler THEN maxSize - 11
    ELSE IF ch = Nines THEN 310
    ELSE 1

\* String.prototype.length
RECURSIVE length(_)
length(s) == IF s = <<>> THEN 0 ELSE TokenLen(Head(s)) + length(Tail(s))

\* the white space of the strings modelled: the space and the tab
WhiteSpace == {" ", "\t"}

RECURSIVE trimStart(_)
trimStart(s) ==
    IF s # <<>> /\ Head(s) \in WhiteSpace THEN trimStart(Tail(s)) ELSE s

RECURSIVE trimEnd(_)
trimEnd(s) ==
    IF s # <<>> /\ s[Len(s)] \in WhiteSpace
    THEN trimEnd(SubSeq(s, 1, Len(s) - 1))
    ELSE s

\* mutant: surrounding white space is kept
trimNothing(s) == s

\* String.prototype.trim
trim(s) == trimEnd(trimStart(s))

\* String.prototype.startsWith, for a prefix that is one token
startsWith(s, prefix) == s # <<>> /\ Head(s) = prefix

\* String.prototype.toLowerCase
toLowerCase(s) ==
    [i \in 1..Len(s) |->
        CASE s[i] = "A" -> "a"
          [] s[i] = "X" -> "x"
          [] OTHER -> s[i]]

\* String.prototype.includes
includes(s, sub) ==
    \E i \in 0..(Len(s) - Len(sub)) : SubSeq(s, i + 1, i + Len(sub)) = sub

IsDigit(ch) == ch = Nines \/ \E i \in 1..10 : Digits[i] = ch
DigitValue(ch) == (CHOOSE i \in 1..10 : Digits[i] = ch) - 1

RECURSIVE NatToString(_)
NatToString(n) ==
    IF n < 10 THEN <<Digits[n + 1]>>
    ELSE NatToString(n \div 10) \o <<Digits[(n % 10) + 1]>>

\* String(v), the conversion parseInt applies to its argument
String(v) ==
    CASE v.t = "string" -> v.s
      [] v.t = "number" -> IF v.n < 0 THEN <<"-">> \o NatToString(0 - v.n)
                           ELSE NatToString(v.n)
      [] v.t = "NaN" -> <<"N", "a", "N">>
      [] v.t = "Infinity" ->
            (IF v.n < 0 THEN <<"-">> ELSE <<>>)
                \o <<"I", "n", "f", "i", "n", "i", "t", "y">>
      [] v.t = "null" -> <<"n", "u", "l", "l">>
      [] OTHER -> <<"u", "n", "d", "e", "f", "i", "n", "e", "d">>

\* the longest prefix of s made of digits
RECURSIVE LeadingDigits(_)
LeadingDigits(s) ==
    IF s # <<>> /\ IsDigit(Head(s)) THEN <<Head(s)>> \o LeadingDigits(Tail(s))
    ELSE <<>>

RECURSIVE DecimalValue(_)
DecimalValue(d) ==
    IF d = <<>> THEN 0
    ELSE 10 * DecimalValue(SubSeq(d, 1, Len(d) - 1)) + DigitValue(d[Len(d)])

\* the digits write a number above Number.MAX_VALUE
Overflows(d) == \E i \in 1..Len(d) : d[i] = Nines

\* parseInt(v): leading white space is skipped, a sign is read, then the
\* digits up to the first character that is not one; NaN without a digit,
\* and the infinity of the sign when the digits are beyond the doubles
parseInt(v) ==
    LET t == trimStart(String(v))
        signed == t # <<>> /\ Head(t) \in {"-", "+"}
        minus == signed /\ Head(t) = "-"
        d == LeadingDigits(IF signed THEN Tail(t) ELSE t)
    IN  IF d = <<>> THEN NaN
        ELSE IF Overflows(d) THEN (IF minus THEN MinusInfinity ELSE Infinity)
        ELSE IF minus THEN Num(0 - DecimalValue(d))
        ELSE Num(DecimalValue(d))

\* ToBoolean(v)
Truthy(v) ==
    CASE v.t = "string" -> v.s # <<>>
      [] v.t = "number" -> v.n # 0
      [] v.t = "Infinity" -> TRUE
      [] OTHER -> FALSE

\* formData.k: undefined when the object has no such key
Get(formData, k) == IF k \in DOMAIN formData THEN formData[k] ELSE Undefined

(***************************************************************************)
(* validateFormData (lines 374-518).  The three branches treat a field in  *)
(* one of a few ways; the sets below say which field gets which.           *)
(***************************************************************************)
\* `!formData.k || formData.k.trim() === ''` is an error, else k.trim()
Required(type) ==
    CASE type = "rejoining" -> {"name", "wrokId"}
      [] type \in {"leave-expats", "leave-omani"} -> {"employeeName", "employeeId"}
      [] OTHER -> {}

\* validatedData.k = formData.k?.trim() || ''
Trimmed(type) ==
    CASE type = "rejoining" ->
            {"mobileNo", "designation", "leaveType", "passportNo",
             "passportHandedOver"}
      [] type = "leave-expats" -> {"position", "site", "mobileNo", "airportName"}
      [] type = "leave-omani" -> {"position", "site", "mobileNo"}
      [] OTHER -> {}

\* validatedData.k = formData.k || ''
Untrimmed(type) ==
    CASE type = "rejoining" -> {"dateOfLeaving", "dateOfJoining"}
      [] type = "leave-expats" ->
            {"formDate", "leaveType", "commenceLeave", "lastDayLeave",
             "paymentOption", "ticketOption"}
      [] type = "leave-omani" ->
            {"formDate", "leaveType", "commenceLeave", "lastDayLeave"}
      [] OTHER -> {}

\* validatedData.k = formData.k ? parseInt(formData.k) : 0
Counted(type) ==
    CASE type = "rejoining" -> {"totalLeave", "allowedLeave", "extraLeave"}
      [] type \in {"leave-expats", "leave-omani"} -> {"totalDays"}
      [] OTHER -> {}

\* mutant: no count has to be positive
PositiveNone(type) == {}

\* strict: `!validatedData.k || validatedData.k <= 0` is an error
Positive(type) ==
    CASE type = "rejoining" -> {"totalLeave"}
      [] type \in {"leave-expats", "leave-omani"} -> {"totalDays"}
      [] OTHER -> {}

\* strict: `validatedData.k < 0` is an error
NonNegative(type) ==
    IF type = "rejoining" THEN {"allowedLeave", "extraLeave"} ELSE {}

\* validatedData.k = processSignature(formData.k, 'k', errors)
Signatures(type) ==
    IF type \in VALID_TYPES
    THEN {"employeeSignature", "managerSignature", "hrSignature"}
    ELSE {}

\* validatedData.k = formData.k || ''
SignatureDates(type) ==
    IF type \in VALID_TYPES
    THEN {"employeeSignatureDate", "managerSignatureDate", "hrSignatureDate"}
    ELSE {}

\* mutant: the dates of the signatures are not carried over
FieldsWithoutDates(type) ==
    Required(type) \cup Trimmed(type) \cup Untrimmed(type) \cup Counted(type)
        \cup Signatures(type)

\* the keys the branch of `type` assigns in validatedData
Fields(type) ==
    Required(type) \cup Trimmed(type) \cup Untrimmed(type) \cup Counted(type)
        \cup Signatures(type) \cup SignatureDates(type)

NoMessage == "(null)"

\* lines 25-40
validateSignature(signature) ==
    IF ~Truthy(signature) THEN NoMessage
    ELSE IF ~startsWith(signature.s, DataImage) THEN "Invalid signature format"
    ELSE IF length(signature.s) > maxSize
         THEN "Signature file is too large (max 500KB)"
    ELSE NoMessage

\* lines 43-50: the value processSignature returns
processSignature(signature) ==
    IF validateSignature(signature) # NoMessage THEN EmptyString
    ELSE IF Truthy(signature) THEN signature ELSE EmptyString

\* the calls that throw a TypeError: .trim() and .startsWith() exist on
\* strings only; `?.` guards undefined and null only
Throws(type, formData) ==
    \/ \E k \in Required(type) :
          Truthy(Get(formData, k)) /\ Get(formData, k).t # "string"
    \/ \E k \in Trimmed(type) :
          Get(formData, k).t \notin {"undefined", "null", "string"}
    \/ \E k \in Signatures(type) :
          Truthy(Get(formData, k)) /\ Get(formData, k).t # "string"

\* the value assigned to validatedData.k
Normalised(type, formData, k) ==
    LET v == Get(formData, k) IN
    CASE k \in Required(type) -> Str(trim(v.s))
      [] k \in Trimmed(type) ->
            IF v.t = "string" THEN Str(trim(v.s)) ELSE EmptyString
      [] k \in Counted(type) -> IF Truthy(v) THEN parseInt(v) ELSE Num(0)
      [] k \in Signatures(type) -> processSignature(v)
      [] OTHER -> IF Truthy(v) THEN v ELSE EmptyString

validateFormData(type, formData, strict) ==
    LET missing == {k \in Required(type) :
                       \/ ~Truthy(Get(formData, k))
                       \/ trim(Get(formData, k).s) = <<>>}
        value(k) == Normalised(type, formData, k)
        empty == {k \in Trimmed(type) \cup Untrimmed(type) : ~Truthy(value(k))}
        notPositive == {k \in Positive(type) :
                           ~Truthy(value(k)) \/ value(k).n <= 0}
        negative == {k \in NonNegative(type) :
                        value(k).t \in {"number", "Infinity"} /\ value(k).n < 0}
        badSignature == {k \in Signatures(type) :
                            validateSignature(Get(formData, k)) # NoMessage}
    IN  IF Throws(type, formData)
        THEN [threw |-> TRUE, errors |-> {}, validatedData |-> EmptyObject]
        ELSE [threw |-> FALSE,
              errors |->
                 {[field |-> k, message |-> "is required"] : k \in missing}
                 \cup (IF strict
                       THEN {[field |-> k, message |-> "is required"] :
                                k \in empty \cup notPositive}
                            \cup {[field |-> k, message |-> "must be 0 or more"] :
                                     k \in negative}
                       ELSE {})
                 \cup {[field |-> k,
                        message |-> validateSignature(Get(formData, k))] :
                          k \in badSignature},
              validatedData |-> [k \in Fields(type) \ missing |-> value(k)]]

\* Object.keys(errors)
Keys(errors) == {e.field : e \in errors}

(***************************************************************************)
(* The bodies a user submits: one of two base bodies of the type, or one   *)
(* of them with a single field changed to a value of the field's pool.     *)
(***************************************************************************)
\* in a pool: the key is not in the body at all
Absent == JsValue("absent", <<>>, 0)

TextPool ==
    {Absent, EmptyString, Null, Str(<<" ">>), Str(<<"a">>), Str(<<" ", "A", " ">>),
     Num(5)}

DatePool == {Absent, EmptyString, Str(<<" ">>), Str(<<"a">>)}

CountPool ==
    {Absent, EmptyString, Str(<<"0">>), Str(<<"7">>), Str(<<"-", "7">>),
     Str(<<"a">>), Str(<<" ", "7", "a">>), Str(<<Nines>>), Num(7)}

SignaturePool ==
    {Absent, EmptyString, Str(<<DataImage, "a">>), Str(<<DataImage, Filler>>),
     Str(<<DataImage, Filler, "a">>), Str(<<"a">>), Num(5)}

\* a key no form type defines
UnknownKey == "isAdmin"

Pool(type, k) ==
    CASE k \in Required(type) \cup Trimmed(type) -> TextPool
      [] k \in Counted(type) -> CountPool
      [] k \in Signatures(type) -> SignaturePool
      [] OTHER -> DatePool

\* only the always-required fields
Minimal(type) == [k \in Required(type) |-> Str(<<"a">>)]

\* every field the paper form expects
Complete(type) ==
    [k \in Fields(type) |->
        CASE k \in Counted(type) -> Str(<<"7">>)
          [] k \in Signatures(type) -> Str(<<DataImage, "a">>)
          [] OTHER -> Str(<<"a">>)]

Write(body, k, v) ==
    IF v = Absent THEN [j \in DOMAIN body \ {k} |-> body[j]]
    ELSE [j \in DOMAIN body \cup {k} |-> IF j = k THEN v ELSE body[j]]

\* the bodies that differ from `body` in one field
OneFieldChanged(type, body) ==
    UNION {{Write(body, k, v) : v \in Pool(type, k)} :
              k \in Fields(type) \cup {UnknownKey}}

Payloads(type) ==
    {Minimal(type), Complete(type)}
        \cup OneFieldChanged(type, Minimal(type))
        \cup OneFieldChanged(type, Complete(type))

\* req.body without `action`: the user's input or the complete body
Body(src, type) == IF src = "input" THEN input.body ELSE Complete(type)

(***************************************************************************)
(* The Record Store.  A row is id, type, data and createdAt; ids and       *)
(* creation times are the order of creation.  No handler reads updatedAt,  *)
(* so the rows here do not carry it.                                       *)
(***************************************************************************)
\* what JSON keeps of a value: NaN and the infinities are written as null
Persisted(data) ==
    [k \in DOMAIN data |->
        IF data[k].t \in {"NaN", "Infinity"} THEN Null ELSE data[k]]

Ids == 1..Len(store)

\* create({ data: { type, data } }): the id and createdAt are the store's
CreatedRow(id, dbType, data) ==
    [id |-> id, type |-> dbType, data |-> Persisted(data),
     createdAt |-> clock.at[id]]

\* mutant: the update stamps the row anew
UpdatedRowRestamped(row, data) ==
    [row EXCEPT !.data = Persisted(data), !.createdAt = @ + 1]

\* mutant: the update keeps the stored value of a field that comes empty
UpdatedRowMerged(row, data) ==
    [row EXCEPT !.data = [k \in DOMAIN data |->
                            IF Truthy(data[k]) \/ k \notin DOMAIN row.data
                            THEN Persisted(data)[k] ELSE row.data[k]]]

\* update({ where: { id }, data: { data } })
UpdatedRow(row, data) == [row EXCEPT !.data = Persisted(data)]

\* findUnique({ where: { id } })
findUnique(id) == IF id \in Ids THEN {store[id]} ELSE {}

\* findMany({ where: { type }, orderBy: { createdAt: 'desc' } })
findMany(dbType) ==
    LET newestFirst == [i \in 1..Len(store) |-> store[Len(store) + 1 - i]]
        OfType(row) == row.type = dbType
    IN  SelectSeq(newestFirst, OfType)

(***************************************************************************)
(* The handlers.  A request is handled from one await to the next.         *)
(***************************************************************************)
InFlight == {"findMany", "findUnique", "create", "update"}

NewRequest(op, type) ==
    [IdleRequest EXCEPT !.op = op, !.type = type, !.rows = Len(store)]

\* the handler has sent its response
Respond(r, status, view, location) ==
    [r EXCEPT !.pc = "done", !.status = status, !.view = view,
              !.location = location]

\* the handler awaits a store call
Await(r, call) ==
    [r EXCEPT !.pc = call, !.outageAtCall = outage, !.calls = @ + 1]

\* mutant: every type is taken for a valid one
ValidTypeAlways(type) == TRUE

\* `VALID_TYPES.includes(type)`
ValidType(type) == type \in VALID_TYPES

\* mutant: the error map is not looked at
HasErrorsNever(errors) == FALSE

\* Object.keys(errors).length > 0
HasErrors(errors) == Keys(errors) # {}

\* mutant: the form is shown again with the normalised values
ShownNormalised(formData, validatedData) == validatedData

\* lines 208-216 and 268-277: the `formData` the view is rendered with
ShownValues(formData, validatedData) == formData

\* mutant: the type of the row is not compared
NotFoundById(found, dbType) == found = {}

\* `!application || application.type !== dbType`
NotFound(found, dbType) ==
    found = {} \/ \E row \in found : row.type # dbType

\* mutant: the user is sent to the list whatever the action
AfterSaveToList(action) == "list"

\* lines 228-232 and 289-293: where the redirect after a write goes
AfterSave(action) == IF action = "export" THEN "pdf" ELSE "list"

\* lines 204-225 and 264-278: validate the body; throw, re-render the form
\* with the errors, or go on to the write
Validate(r, view, call) ==
    LET formData == Body(r.src, r.type)
        result == validateFormData(r.type, formData, r.action = "export")
        v == [r EXCEPT !.validations = @ + 1, !.strict = (r.action = "export")]
    IN  IF result.threw THEN Respond(v, 500, "error", "")
        ELSE IF HasErrors(result.errors)
        THEN Respond([v EXCEPT !.errors = result.errors,
                               !.formData = ShownValues(formData,
                                                        result.validatedData)],
                     200, view, "")
        ELSE Await([v EXCEPT !.data = result.validatedData], call)

\* Instants are whole hours since the epoch, in UTC; a date is the number
\* of its day.  `new Date(from)` for a date string: midnight UTC of the day
fromDate(day) == day * 24

\* `new Date(to)` followed by setHours(23, 59, 59, 999): the last hour of
\* the day that midnight UTC of `day` falls on in the server's time zone
toDate(day) ==
    LET localDay == (day * 24 + clock.tz) \div 24
    IN  (localDay + 1) * 24 - clock.tz - 1

\* mutant: the rows the request before this one listed are left out
FilteredSinceLast(rows, search, from, to) ==
    LET Fresh(row) == \A l \in rq.before : \A i \in 1..Len(l) : l[i] # row.id
    IN  SelectSeq(rows, Fresh)

\* lines 85-110: the in-memory filters of list
Filtered(rows, search, from, to) ==
    LET Has(row, k) ==
            /\ Truthy(Get(row.data, k))
            /\ includes(toLowerCase(Get(row.data, k).s), toLowerCase(search.s))
        Matches(row) ==
            /\ Truthy(search) =>
                  \E k \in {"name", "employeeName", "employeeId", "wrokId"} :
                      Has(row, k)
            /\ from # 0 => row.createdAt >= fromDate(from)
            /\ to # 0 => row.createdAt <= toDate(to)
    IN  SelectSeq(rows, Matches)

\* mutant: the name is used as it is stored
getDisplayNameAsGiven(formType, data, id) ==
    LET given == IF formType = "rejoining" THEN Get(data, "name")
                 ELSE Get(data, "employeeName")
    IN  IF Truthy(given) THEN given ELSE Str(NatToString(id))

\* lines 333-350
getDisplayNameForFile(formType, data, id) ==
    LET given == IF formType = "rejoining" THEN Get(data, "name")
                 ELSE Get(data, "employeeName")
        name == IF Truthy(given) /\ trim(given.s) # <<>> THEN given.s
                ELSE NatToString(id)
        Legal(ch) == ch \in {"a", "A", "x", "X", " ", "_", ".", "-"} \/ IsDigit(ch)
        clean == trim(SelectSeq(name, Legal))
        cut == IF Len(clean) > 80 THEN SubSeq(clean, 1, 80) ELSE clean
    IN  IF cut # <<>> THEN Str(cut) ELSE Str(NatToString(id))

\* history: what the request before this one listed, when it was a list
\* request for the same type with the same filters that was answered
ListedBefore(type, search, from, to) ==
    IF /\ rq.op = "list" /\ rq.pc = "done" /\ rq.status = 200
       /\ rq.type = type /\ rq.search = search
       /\ rq.from = from /\ rq.to = to
    THEN {rq.listed}
    ELSE {}

\* exports.list up to `await prisma.application.findMany`
ListRequest(type, search, from, to) ==
    /\ rq.pc \in {"idle", "done"}
    /\ LET r == [NewRequest("list", type) EXCEPT
                    !.search = search, !.from = from, !.to = to,
                    !.before = ListedBefore(type, search, from, to)]
       IN  rq' = IF ~ValidType(type) THEN Respond(r, 404, "404", "")
                 ELSE Await(r, "findMany")
    /\ UNCHANGED <<store, origin, outage, input, clock>>
    /\ UNCHANGED outsideForms

\* exports.list from the rows to the rendered page
ListFound ==
    /\ rq.op = "list" /\ rq.pc = "findMany"
    /\ outage = 0
    /\ LET rows == Filtered(findMany(normalizeType(rq.type)),
                            rq.search, rq.from, rq.to)
       IN  rq' = Respond([rq EXCEPT !.listed = [i \in 1..Len(rows) |-> rows[i].id]],
                         200, "forms/list", "")
    /\ UNCHANGED <<store, origin, outage, input, clock>>
    /\ UNCHANGED outsideForms

\* exports.create up to `await prisma.application.create`
CreateRequest(type, action, src) ==
    /\ rq.pc \in {"idle", "done"}
    /\ Len(store) < Len(clock.at)
    /\ LET r == [NewRequest("create", type) EXCEPT !.action = action, !.src = src]
       IN  rq' = IF ~ValidType(type) THEN Respond(r, 404, "404", "")
                 ELSE Validate(r, "forms/new", "create")
    /\ UNCHANGED <<store, origin, outage, input, clock>>
    /\ UNCHANGED outsideForms

\* exports.create from the created row to the redirect
CreateWritten ==
    /\ rq.op = "create" /\ rq.pc = "create"
    /\ outage = 0
    /\ LET id == Len(store) + 1 IN
       /\ store' = Append(store, CreatedRow(id, normalizeType(rq.type), rq.data))
       /\ origin' = Append(origin, [op |-> "create", src |-> rq.src,
                                    action |-> rq.action])
       /\ rq' = Respond([rq EXCEPT !.id = id, !.written = @ + 1], 302, "",
                        AfterSave(rq.action))
    /\ UNCHANGED <<outage, input, clock>>
    /\ UNCHANGED outsideForms

\* exports.editForm up to `await prisma.application.findUnique`
EditRequest(type, id) ==
    /\ rq.pc \in {"idle", "done"}
    /\ LET r == [NewRequest("edit", type) EXCEPT !.id = id]
       IN  rq' = IF ~ValidType(type) THEN Respond(r, 404, "404", "")
                 ELSE Await(r, "findUnique")
    /\ UNCHANGED <<store, origin, outage, input, clock>>
    /\ UNCHANGED outsideForms

\* exports.editForm from the row to the form filled with its data
EditFound ==
    /\ rq.op = "edit" /\ rq.pc = "findUnique"
    /\ outage = 0
    /\ LET application == findUnique(rq.id) IN
       rq' = IF NotFound(application, normalizeType(rq.type))
             THEN Respond(rq, 404, "404", "")
             ELSE Respond([rq EXCEPT !.formData = store[rq.id].data],
                          200, "forms/edit", "")
    /\ UNCHANGED <<store, origin, outage, input, clock>>
    /\ UNCHANGED outsideForms

\* exports.update up to `await prisma.application.findUnique`
UpdateRequest(type, id, action, src) ==
    /\ rq.pc \in {"idle", "done"}
    /\ LET r == [NewRequest("update", type) EXCEPT
                    !.id = id, !.action = action, !.src = src,
                    !.concurrent = (other.pc \in InFlight)]
       IN  rq' = IF ~ValidType(type) THEN Respond(r, 404, "404", "")
                 ELSE Await(r, "findUnique")
    /\ UNCHANGED <<store, origin, outage, input, clock>>
    /\ UNCHANGED outsideForms

\* exports.update from the existing row to `await prisma.application.update`
UpdateFound ==
    /\ rq.op = "update" /\ rq.pc = "findUnique"
    /\ outage = 0
    /\ LET existing == findUnique(rq.id) IN
       rq' = IF NotFound(existing, normalizeType(rq.type))
             THEN Respond(rq, 404, "404", "")
             ELSE Validate(rq, "forms/edit", "update")
    /\ UNCHANGED <<store, origin, outage, input, clock>>
    /\ UNCHANGED outsideForms

\* exports.update from the updated row to the redirect
UpdateWritten ==
    /\ rq.op = "update" /\ rq.pc = "update"
    /\ outage = 0
    /\ store' = [store EXCEPT ![rq.id] = UpdatedRow(store[rq.id], rq.data)]
    /\ origin' = [origin EXCEPT ![rq.id] = [op |-> "update", src |-> rq.src,
                                            action |-> rq.action]]
    /\ rq' = Respond([rq EXCEPT !.written = @ + 1], 302, "",
                     AfterSave(rq.action))
    /\ UNCHANGED <<outage, input, clock>>
    /\ UNCHANGED outsideForms

\* exports.exportPDF up to `await prisma.application.findUnique`
ExportRequest(type, id) ==
    /\ rq.pc \in {"idle", "done"}
    /\ LET r == [NewRequest("export", type) EXCEPT !.id = id]
       IN  rq' = IF ~ValidType(type) THEN Respond(r, 404, "text", "")
                 ELSE Await(r, "findUnique")
    /\ UNCHANGED <<store, origin, outage, input, clock>>
    /\ UNCHANGED outsideForms

\* exports.exportPDF from the row to `await pdfService.generatePDF`
ExportFound ==
    /\ rq.op = "export" /\ rq.pc = "findUnique"
    /\ outage = 0
    /\ LET application == findUnique(rq.id) IN
       IF NotFound(application, normalizeType(rq.type))
       THEN rq' = Respond(rq, 404, "text", "")
       ELSE LET parsedData == store[rq.id].data
                result == validateFormData(rq.type, parsedData, TRUE)
                v == [rq EXCEPT !.validations = @ + 1, !.strict = TRUE]
            IN  rq' = IF result.threw THEN Respond(v, 500, "text", "")
                      ELSE IF HasErrors(result.errors)
                      THEN Respond([v EXCEPT !.errors = result.errors],
                                   302, "", "list?exportError=1")
                      ELSE [v EXCEPT !.pc = "generatePDF",
                                     !.rendered = @ + 1,
                                     !.filename = getDisplayNameForFile(
                                                     rq.type, parsedData, rq.id)]
    /\ UNCHANGED <<store, origin, outage, input, clock>>
    /\ UNCHANGED outsideForms

\* exports.exportPDF after generatePDF: the download, or the catch block
RenderSettles(ok) ==
    /\ rq.pc = "generatePDF"
    /\ rq' = IF ok THEN Respond(rq, 200, "application/pdf", "")
             ELSE Respond(rq, 500, "text", "")
    /\ UNCHANGED <<store, origin, outage, input, clock>>
    /\ UNCHANGED outsideForms

\* the awaited store call rejected with a network error: every handler's
\* catch block answers 500
StoreRejects(error) ==
    /\ rq.pc \in InFlight
    /\ outage > 0
    /\ isRetryable(error)
    /\ outage' = outage - 1
    /\ rq' = Respond([rq EXCEPT !.faults = @ + 1], 500,
                     IF rq.op = "export" THEN "text" ELSE "error", "")
    /\ UNCHANGED <<store, origin, input, clock>>
    /\ UNCHANGED outsideForms

\* a type that is none of VALID_TYPES
NoSuchType == "payslip"

\* a valid type that is not `type`
OtherType(type) ==
    IF type = "leave-omani" THEN "leave-expats" ELSE "leave-omani"

\* the requests a user makes: about forms of the input's type, with an id
\* that may name no row, or about a type that does not exist
ListRequests ==
    {[type |-> input.type, search |-> Undefined, from |-> 0, to |-> 0],
     [type |-> input.type, search |-> Str(<<"a">>), from |-> 1, to |-> 1],
     [type |-> NoSuchType, search |-> Undefined, from |-> 0, to |-> 0]}

CreateRequests ==
    {[type |-> input.type, action |-> a, src |-> s] :
        a \in {"save", "export"}, s \in {"input", "complete"}}
    \cup {[type |-> NoSuchType, action |-> "save", src |-> "input"]}

UpdateRequests ==
    {[type |-> input.type, id |-> 1, action |-> a, src |-> "input"] :
        a \in {"save", "export"}}
    \cup {[type |-> input.type, id |-> MaxRecords + 1, action |-> "save",
           src |-> "input"],
          [type |-> NoSuchType, id |-> 1, action |-> "save", src |-> "input"],
          [type |-> OtherType(input.type), id |-> 1, action |-> "save",
           src |-> "input"]}

EditRequests ==
    {[type |-> input.type, id |-> 1], [type |-> input.type, id |-> MaxRecords + 1],
     [type |-> NoSuchType, id |-> 1], [type |-> OtherType(input.type), id |-> 1]}

ExportRequests ==
    {[type |-> input.type, id |-> 1], [type |-> input.type, id |-> MaxRecords + 1],
     [type |-> NoSuchType, id |-> 1], [type |-> OtherType(input.type), id |-> 1]}

NextForms ==
    \/ \E r \in ListRequests : ListRequest(r.type, r.search, r.from, r.to)
    \/ ListFound
    \/ \E r \in CreateRequests : CreateRequest(r.type, r.action, r.src)
    \/ CreateWritten
    \/ \E r \in UpdateRequests : UpdateRequest(r.type, r.id, r.action, r.src)
    \/ UpdateFound
    \/ UpdateWritten
    \/ \E r \in ExportRequests : ExportRequest(r.type, r.id)
    \/ ExportFound
    \/ \E ok \in BOOLEAN : RenderSettles(ok)
    \/ \E error \in OpErrors : StoreRejects(error)

InitForms ==
    /\ InitDal
    /\ st = ServerUp
    /\ store = <<>>
    /\ origin = <<>>
    /\ rq = IdleRequest
    /\ other = IdleRequest
    /\ pdf = PdfIdle
    /\ datasource = NoDatasource
    /\ clock = [tz |-> 0, at |-> [i \in 1..MaxRecords |-> 24 * i]]
    /\ outage \in 0..MaxOutage
    /\ \E type \in VALID_TYPES :
          \E body \in Payloads(type) : input = [type |-> type, body |-> body]

FormsSpec == InitForms /\ [][NextForms]_vars

(***************************************************************************)
(* getDisplayNameForFile on its own: the data of a row is drawn at the     *)
(* start, with the name field left out, null, empty or one of Names, and   *)
(* the function is applied to it for a row id.                             *)
(***************************************************************************)
MaxName == 2

Alphabet == {"a", "A", "7", " ", "_", ".", "-", "/", "\"", "\t"}

Run(n, ch) == [i \in 1..n |-> ch]

\* every string of 1..MaxName characters, and strings around the cut
Names ==
    UNION {[1..n -> Alphabet] : n \in 1..MaxName}
        \cup {Run(80, "a"), Run(81, "a"), Run(80, "a") \o <<"/">>,
              <<"/">> \o Run(81, "a"), Run(79, "a") \o <<" ", "a">>,
              Run(81, "/")}

NameKey(type) == IF type = "rejoining" THEN "name" ELSE "employeeName"

\* application.data as far as getDisplayNameForFile reads it
FileData(type) ==
    {EmptyObject}
        \cup {[k \in {NameKey(type)} |-> v] :
                 v \in {Null, EmptyString} \cup {Str(w) : w \in Names}}

FileIds == {1, 12}

\* lines 333-351: const displayNameForFile = getDisplayNameForFile(type, parsedData)
DisplayName(id) ==
    /\ rq.pc = "idle"
    /\ rq' = [NewRequest("export", input.type) EXCEPT
                 !.pc = "named", !.id = id,
                 !.filename = getDisplayNameForFile(input.type, input.body, id)]
    /\ UNCHANGED <<store, origin, outage, input, clock>>
    /\ UNCHANGED outsideForms

NextFilename == \E id \in FileIds : DisplayName(id)

InitFilename ==
    /\ InitDal
    /\ st = ServerUp
    /\ store = <<>>
    /\ origin = <<>>
    /\ rq = IdleRequest
    /\ other = IdleRequest
    /\ pdf = PdfIdle
    /\ datasource = NoDatasource
    /\ clock = IdleClock
    /\ outage = 0
    /\ \E type \in VALID_TYPES :
          \E data \in FileData(type) : input = [type |-> type, body |-> data]

FilenameSpec == InitFilename /\ [][NextFilename]_vars

(***************************************************************************)
(* The requests about one record (edit, update, export), with ids and      *)
(* types that name a row, no row, or a row of another type.  What the body *)
(* of an update holds beyond being valid or not plays no part here, so the *)
(* input is the minimal or the complete body.                              *)
(***************************************************************************)
NextOneRecord ==
    \/ \E src \in {"input", "complete"} :
          CreateRequest(input.type, "save", src)
    \/ CreateWritten
    \/ \E r \in EditRequests : EditRequest(r.type, r.id)
    \/ EditFound
    \/ \E r \in UpdateRequests : UpdateRequest(r.type, r.id, r.action, r.src)
    \/ UpdateFound
    \/ UpdateWritten
    \/ \E r \in ExportRequests : ExportRequest(r.type, r.id)
    \/ ExportFound
    \/ \E ok \in BOOLEAN : RenderSettles(ok)
    \/ \E error \in OpErrors : StoreRejects(error)

InitOneRecord ==
    /\ InitDal
    /\ st = ServerUp
    /\ store = <<>>
    /\ origin = <<>>
    /\ rq = IdleRequest
    /\ other = IdleRequest
    /\ pdf = PdfIdle
    /\ datasource = NoDatasource
    /\ clock = [tz |-> 0, at |-> [i \in 1..MaxRecords |-> 24 * i]]
    /\ outage \in 0..MaxOutage
    /\ \E type \in VALID_TYPES :
          \E body \in {Minimal(type), Complete(type)} :
              input = [type |-> type, body |-> body]

OneRecordSpec == InitOneRecord /\ [][NextOneRecord]_vars

(***************************************************************************)
(* Two update requests at once.  Node runs one continuation at a time, so  *)
(* a handler runs from one await to the next without interruption; `rq`    *)
(* is the request whose continuation runs next, `other` the one that       *)
(* waits, and Switch hands over between them.  A row made from the         *)
(* complete body is stored at the start.                                   *)
(***************************************************************************)
\* the event loop turns to the other request
Switch ==
    /\ rq' = other
    /\ other' = rq
    /\ UNCHANGED <<store, origin, outage, input, clock>>
    /\ UNCHANGED <<activePrisma, isConnected, isRecreating, clients, wr, st, pdf,
                   datasource>>

\* the bodies of the concurrent updates: the required fields only, or the
\* complete body with one field left empty
ConcurrentBodies(type) ==
    {Minimal(type)} \cup {Write(Complete(type), k, EmptyString) : k \in Fields(type)}

NextConcurrent ==
    \/ \E src \in {"input", "complete"} :
          UpdateRequest(input.type, 1, "save", src)
    \/ UpdateFound
    \/ UpdateWritten
    \/ Switch

InitConcurrent ==
    /\ InitDal
    /\ st = ServerUp
    /\ rq = IdleRequest
    /\ other = IdleRequest
    /\ pdf = PdfIdle
    /\ datasource = NoDatasource
    /\ outage = 0
    /\ clock = [tz |-> 0, at |-> <<24>>]
    /\ \E type \in VALID_TYPES :
          /\ \E body \in ConcurrentBodies(type) :
                input = [type |-> type, body |-> body]
          /\ store = <<[id |-> 1, type |-> normalizeType(type),
                        data |-> Persisted(validateFormData(
                                    type, Complete(type), FALSE).validatedData),
                        createdAt |-> 24]>>
    /\ origin = <<[op |-> "create", src |-> "complete", action |-> "save"]>>

ConcurrentSpec == InitConcurrent /\ [][NextConcurrent]_vars

(***************************************************************************)
(* getDatasourceUrl (src/prismaClient.js:8-39).  The text of DATABASE_URL  *)
(* is the quote characters it begins with, the port, the path, the query   *)
(* as written and the fragment as written; its last characters belong to   *)
(* the fragment when there is one, else to the value of the last           *)
(* parameter, else to the path.  "%27" and "%22" are the escapes of the    *)
(* two quote characters.                                                   *)
(***************************************************************************)
SingleQuote == "'"
DoubleQuote == "\""

\* the component of the text that holds its last character
LastPart(t) ==
    IF t.frag # <<>> THEN t.frag
    ELSE IF t.query # <<>> THEN t.query[Len(t.query)].v
    ELSE t.path

WithLastPart(t, part) ==
    IF t.frag # <<>> THEN [t EXCEPT !.frag = part]
    ELSE IF t.query # <<>> THEN [t EXCEPT !.query[Len(t.query)].v = part]
    ELSE [t EXCEPT !.path = part]

\* the text with `chars` written after it
Followed(t, chars) == WithLastPart(t, LastPart(t) \o chars)

\* url.replace(/^q|q$/g, ''): one q at the start and one at the end go
replaceQuote(t, q) ==
    LET headless == IF t.pre # <<>> /\ Head(t.pre) = q
                    THEN [t EXCEPT !.pre = Tail(@)] ELSE t
        last == LastPart(headless)
    IN  IF last # <<>> /\ last[Len(last)] = q
        THEN WithLastPart(headless, SubSeq(last, 1, Len(last) - 1))
        ELSE headless

\* `new URL(url)` throws when the text does not begin with a scheme
Parses(t) == t.pre = <<>>

\* a value of the query as URLSearchParams reads it
Decoded(v) ==
    [i \in 1..Len(v) |-> CASE v[i] = "%27" -> SingleQuote
                           [] v[i] = "%22" -> DoubleQuote
                           [] OTHER -> v[i]]

\* a value as URLSearchParams writes it (application/x-www-form-urlencoded)
FormEncoded(v) ==
    [i \in 1..Len(v) |-> CASE v[i] = SingleQuote -> "%27"
                           [] v[i] = DoubleQuote -> "%22"
                           [] OTHER -> v[i]]

\* path and fragment as the URL parser keeps them: a double quote is
\* escaped, a single quote is not
UrlEncoded(part) ==
    [i \in 1..Len(part) |-> IF part[i] = DoubleQuote THEN "%22" ELSE part[i]]

\* searchParams.set(name, value): the first pair of that name gets the
\* value and the later ones are removed; without one the pair is appended
searchParamsSet(params, name, value) ==
    LET Named(i) == params[i].k = name
        first == {i \in 1..Len(params) :
                     Named(i) /\ \A j \in 1..(i - 1) : ~Named(j)}
        Kept(p) == p.k # name \/ p.first
        marked == [i \in 1..Len(params) |->
                      [k |-> params[i].k,
                       v |-> IF i \in first THEN value ELSE params[i].v,
                       first |-> i \in first]]
        kept == SelectSeq(marked, Kept)
    IN  IF first = {} THEN Append(params, [k |-> name, v |-> value])
        ELSE [i \in 1..Len(kept) |-> [k |-> kept[i].k, v |-> kept[i].v]]

\* lines 18-30: the parameters the function sets
Injected(port, params) ==
    LET a == searchParamsSet(params, "connection_limit", <<"5">>)
        b == searchParamsSet(a, "pool_timeout", <<"0">>)
        c == searchParamsSet(b, "connect_timeout", <<"6", "0">>)
        d == searchParamsSet(c, "sslmode", <<"require">>)
    IN  IF port = "6543" THEN searchParamsSet(d, "pgbouncer", <<"true">>) ELSE d

\* lines 8-39, for a DATABASE_URL that is set
getDatasourceUrl(text) ==
    LET url == replaceQuote(replaceQuote(text, DoubleQuote), SingleQuote)
        searchParams == [i \in 1..Len(url.query) |->
                            [k |-> url.query[i].k, v |-> Decoded(url.query[i].v)]]
        set == Injected(url.port, searchParams)
    IN  IF ~Parses(url) THEN url
        ELSE [pre |-> <<>>, port |-> url.port, path |-> UrlEncoded(url.path),
              query |-> [i \in 1..Len(set) |->
                            [k |-> set[i].k, v |-> FormEncoded(set[i].v)]],
              frag |-> UrlEncoded(url.frag)]

\* the URLs of the environment: the pooler port or the direct one, with
\* parameters of their own or none, with a fragment or none
Queries ==
    {<<>>,
     <<[k |-> "connection_limit", v |-> <<"1">>]>>,
     <<[k |-> "pgbouncer", v |-> <<"true">>],
       [k |-> "sslmode", v |-> <<"disable">>],
       [k |-> "sslmode", v |-> <<"prefer">>]>>,
     <<[k |-> "application_name", v |-> <<"o", SingleQuote>>]>>}

Fragments == {<<>>, <<"x">>, <<"x", SingleQuote>>, <<"x", DoubleQuote>>}

Urls ==
    {[pre |-> <<>>, port |-> port, path |-> <<"/", "d">>, query |-> query,
      frag |-> frag] :
        port \in {"6543", "5432"}, query \in Queries, frag \in Fragments}

\* the quote characters a dashboard may put around the value, matching or
\* not
Wrappings ==
    {<<>>, <<DoubleQuote>>, <<SingleQuote>>, <<DoubleQuote, SingleQuote>>,
     <<SingleQuote, DoubleQuote>>}

\* `open url close` as one text
Wrapped(open, url, close) == Followed([url EXCEPT !.pre = open], close)

\* createPrismaClient() reads the environment: line 48
CreatePrismaClient ==
    /\ datasource.pc = "env"
    /\ datasource' = [datasource EXCEPT !.pc = "url",
                         !.url = getDatasourceUrl(datasource.text)]
    /\ UNCHANGED <<activePrisma, isConnected, isRecreating, clients, wr, st, pdf>>
    /\ UNCHANGED forms

\* the URL that was returned is set as DATABASE_URL and read again
Reconfigure ==
    /\ datasource.pc = "url"
    /\ datasource' = [datasource EXCEPT !.pc = "again",
                         !.again = getDatasourceUrl(datasource.url)]
    /\ UNCHANGED <<activePrisma, isConnected, isRecreating, clients, wr, st, pdf>>
    /\ UNCHANGED forms

NextUrl == CreatePrismaClient \/ Reconfigure

InitUrl ==
    /\ activePrisma = 0
    /\ clients = 0
    /\ isConnected = FALSE
    /\ isRecreating = FALSE
    /\ wr = [c \in Callers |-> IdleFrame]
    /\ st = ServerUp
    /\ store = <<>>
    /\ origin = <<>>
    /\ rq = IdleRequest
    /\ other = IdleRequest
    /\ outage = 0
    /\ input = [type |-> "rejoining", body |-> EmptyObject]
    /\ clock = IdleClock
    /\ pdf = PdfIdle
    /\ \E bare \in Urls, open, close \in Wrappings :
          datasource = [pc |-> "env", bare |-> bare, open |-> open,
                        close |-> close, text |-> Wrapped(open, bare, close),
                        url |-> bare, again |-> bare]

UrlSpec == InitUrl /\ [][NextUrl]_vars

(***************************************************************************)
(* The renderer (src/services/pdfService.js): generatePDF from one await   *)
(* to the next.  pdf.engines counts the engine instances that are running, *)
(* pdf.failed collects what went wrong during the invocation.              *)
(***************************************************************************)
MaxExports == 2

\* the keys of templateMap
templateMap == {"rejoining", "leave-expats", "leave-omani"}

\* lines 174-181: the catch block rejects with one wrapped error
Rejected(p, fault, cause) ==
    [p EXCEPT !.pc = "settled", !.result = "rejected",
              !.message = <<"Failed to generate PDF: ", cause>>,
              !.failed = @ \cup {fault}]

\* lines 99-115: the call, up to `await imageToBase64(logoPath)`
GeneratePDF(type) ==
    /\ pdf.pc \in {"idle", "settled"}
    /\ pdf.calls < MaxExports
    /\ LET p == [PdfIdle EXCEPT !.type = type, !.calls = pdf.calls + 1,
                                !.engines = pdf.engines]
       IN  pdf' = IF type \notin templateMap
                  THEN Rejected(p, "type", "Invalid form type")
                  ELSE [p EXCEPT !.pc = "imageToBase64"]
    /\ UNCHANGED <<activePrisma, isConnected, isRecreating, clients, wr, st>>
    /\ UNCHANGED <<forms, datasource>>

\* lines 81-91 and 115-119: imageToBase64 returns the data URL, or '' when
\* the file cannot be read; then `await ejs.renderFile`
LogoSettles(read) ==
    /\ pdf.pc = "imageToBase64"
    /\ pdf' = IF read
              THEN [pdf EXCEPT !.pc = "renderFile", !.logoBase64 = "data:image/png"]
              ELSE [pdf EXCEPT !.pc = "renderFile", !.logoBase64 = "",
                               !.failed = @ \cup {"logo"}]
    /\ UNCHANGED <<activePrisma, isConnected, isRecreating, clients, wr, st>>
    /\ UNCHANGED <<forms, datasource>>

\* lines 119-132: the template is rendered or throws; findChromeExecutable
\* returns a path or null; then `await puppeteer.launch`
TemplateSettles(rendered, executablePath) ==
    /\ pdf.pc = "renderFile"
    /\ pdf' = IF ~rendered THEN Rejected(pdf, "template", "template error")
              ELSE IF ~executablePath
              THEN Rejected(pdf, "executable", "Chrome executable not found")
              ELSE [pdf EXCEPT !.pc = "launch"]
    /\ UNCHANGED <<activePrisma, isConnected, isRecreating, clients, wr, st>>
    /\ UNCHANGED <<forms, datasource>>

\* lines 132-146: the engine is launched, or the launch rejects
LaunchSettles(launched) ==
    /\ pdf.pc = "launch"
    /\ pdf' = IF launched
              THEN [pdf EXCEPT !.pc = "newPage", !.browser = "open",
                               !.engines = @ + 1]
              ELSE Rejected(pdf, "launch", "launch failed")
    /\ UNCHANGED <<activePrisma, isConnected, isRecreating, clients, wr, st>>
    /\ UNCHANGED <<forms, datasource>>

\* the awaits on the page, in the order of lines 146-168
PageSteps == <<"newPage", "setContent", "evaluateHandle", "emulateMediaType", "pdf">>

\* lines 149-151: what setContent waits for before it resolves
waitUntil == {"load", "domcontentloaded", "networkidle0"}

\* mutant: the capture follows the content at once
StepAfterContent(pc) ==
    IF pc = "newPage" THEN "setContent"
    ELSE IF pc = "setContent" THEN "pdf" ELSE "close"

StepAfter(pc) ==
    LET i == CHOOSE j \in 1..Len(PageSteps) : PageSteps[j] = pc
    IN  IF i < Len(PageSteps) THEN PageSteps[i + 1] ELSE "close"

\* lines 146-170: one await on the page settles; a rejection goes to the
\* catch block, which does not close the browser
PageSettles(done) ==
    /\ \E i \in 1..Len(PageSteps) : PageSteps[i] = pdf.pc
    /\ pdf' = IF done
              THEN [pdf EXCEPT !.pc = StepAfter(pdf.pc),
                               !.pdfBuffer = (pdf.pc = "pdf"),
                               !.steps = Append(@, pdf.pc),
                               !.waitUntil = IF pdf.pc = "setContent"
                                             THEN waitUntil ELSE @]
              ELSE Rejected(pdf, pdf.pc, "page error")
    /\ UNCHANGED <<activePrisma, isConnected, isRecreating, clients, wr, st>>
    /\ UNCHANGED <<forms, datasource>>

\* lines 170-173: `await browser.close()`, then `return pdfBuffer`
CloseSettles(closed) ==
    /\ pdf.pc = "close"
    /\ pdf' = IF closed
              THEN [pdf EXCEPT !.pc = "settled", !.result = "resolved",
                               !.browser = "closed", !.engines = @ - 1]
              ELSE Rejected(pdf, "close", "close failed")
    /\ UNCHANGED <<activePrisma, isConnected, isRecreating, clients, wr, st>>
    /\ UNCHANGED <<forms, datasource>>

NextPdf ==
    \/ \E type \in templateMap \cup {NoSuchType} : GeneratePDF(type)
    \/ \E read \in BOOLEAN : LogoSettles(read)
    \/ \E rendered, executablePath \in BOOLEAN :
          TemplateSettles(rendered, executablePath)
    \/ \E launched \in BOOLEAN : LaunchSettles(launched)
    \/ \E done \in BOOLEAN : PageSettles(done)
    \/ \E closed \in BOOLEAN : CloseSettles(closed)

PdfSpec == Init /\ [][NextPdf]_vars

(***************************************************************************)
(* Listing: rows of two types are created at instants around the ends of   *)
(* day 2, on a server west of, on, or east of UTC, and are listed with and *)
(* without a search string and a range of dates.                           *)
(***************************************************************************)
MaxListed == 2

\* the server's offset from UTC in hours: New York, UTC, Muscat
TimeZones == {0 - 5, 0, 4}

\* 23:00 of day 1, and 12:00, 22:00 and 24:00 of day 2 (UTC)
Instants == {47, 60, 70, 72}

\* the instants the rows are created at, one after the other
Schedules ==
    {at \in [1..MaxListed -> Instants] :
        \A i \in 1..(MaxListed - 1) : at[i] <= at[i + 1]}

\* the body with the always-required fields that the search string is in
\* but for the case of the letter; the complete body does not have it
ListBodies(type) == {[k \in Required(type) |-> Str(<<"X">>)]}

ListQueries ==
    {[type |-> input.type, search |-> q, from |-> w[1], to |-> w[2]] :
        q \in {Undefined, Str(<<"x">>)},
        w \in {<<0, 0>>, <<2, 2>>, <<2, 0>>, <<0, 1>>}}
    \cup {[type |-> NoSuchType, search |-> Undefined, from |-> 0, to |-> 0]}

ListCreates ==
    {[type |-> t, src |-> src] :
        t \in {input.type, OtherType(input.type)}, src \in {"input", "complete"}}

NextList ==
    \/ \E q \in ListQueries : ListRequest(q.type, q.search, q.from, q.to)
    \/ ListFound
    \/ \E r \in ListCreates : CreateRequest(r.type, "save", r.src)
    \/ CreateWritten

InitList ==
    /\ InitDal
    /\ st = ServerUp
    /\ store = <<>>
    /\ origin = <<>>
    /\ rq = IdleRequest
    /\ other = IdleRequest
    /\ pdf = PdfIdle
    /\ datasource = NoDatasource
    /\ outage = 0
    /\ \E type \in VALID_TYPES :
          \E body \in ListBodies(type) : input = [type |-> type, body |-> body]
    /\ \E tz \in TimeZones :
          \E at \in Schedules : clock = [tz |-> tz, at |-> at]

ListSpec == InitList /\ [][NextList]_vars

(***************************************************************************)
(* Properties of withRetry and recreatePrismaClient.                       *)
(***************************************************************************)
Finished(f) == f.pc \in {"returned", "rejected"}
InCall(f) == f.pc \notin {"idle", "returned", "rejected"}
Failures(f) == f.poolFails + f.hardFails + f.otherFails
Performers == {c \in Callers : wr[c].pc \in {"rc_disconnect", "rc_connect"}}

RECURSIVE SumCreated(_)
SumCreated(S) ==
    IF S = {} THEN 0
    ELSE LET c == CHOOSE x \in S : TRUE
         IN  wr[c].created + SumCreated(S \ {c})

\* C1 (as claimed): a call whose operation failed with a retryable error on
\* every invocation has invoked it exactly maxRetries times when it rejects,
\* and rejects with the operation's last error; a call that returned had a
\* successful invocation.
C1_RetryExhaustion ==
    \A c \in Callers :
        LET f == wr[c] IN
        /\ (f.pc = "rejected" /\ f.otherFails = 0) =>
               (f.invocations = f.maxRetries /\ f.thrown = f.lastError)
        /\ f.pc = "returned" => Failures(f) < f.invocations

\* C2: a first invocation that fails with an error of neither class ends the
\* call at once: rejected with that error, one invocation, no delay, no
\* replacement.
C2_NonRetryableImmediacy ==
    \A c \in Callers :
        LET f == wr[c] IN
        (f.otherFails > 0 /\ f.poolFails + f.hardFails = 0) =>
            /\ f.pc = "rejected"
            /\ f.thrown = f.lastError
            /\ ~PoolClass(f.thrown) /\ ~UnreachableClass(f.thrown)
            /\ f.invocations = 1
            /\ f.delays = 0
            /\ f.recreateCalls = 0
            /\ f.created = 0

C2_Witness ==
    \E c \in Callers :
        /\ wr[c].pc = "rejected"
        /\ wr[c].thrown = ErrP2002
        /\ wr[c].invocations = 1
        /\ wr[c].maxRetries = MaxAttempts

\* C3 (as claimed): at the step where a call that saw only pool-class
\* failures returns, the active client is still the one the call started
\* with and the call has invoked no replacement.
C3_SameClientWholeCall ==
    [][\A c \in Callers :
          (/\ wr[c].pc = "op" /\ wr'[c].pc = "returned"
           /\ wr[c].poolFails > 0
           /\ wr[c].hardFails = 0 /\ wr[c].otherFails = 0) =>
              (activePrisma = wr[c].startClient /\ wr[c].recreateCalls = 0)]_vars

\* C3 (amended): a call that saw only pool-class failures and then returned
\* waited once per failure, invoked no replacement and constructed no
\* client; if the active client is no longer the one the call started with,
\* another caller constructed its replacement.
C3_PoolRecovery ==
    \A c \in Callers :
        LET f == wr[c] IN
        (f.pc = "returned" /\ f.poolFails > 0
                           /\ f.hardFails = 0 /\ f.otherFails = 0) =>
            /\ f.invocations = f.poolFails + 1
            /\ f.invocations <= f.maxRetries
            /\ f.delays = f.poolFails
            /\ f.recreateCalls = 0
            /\ f.created = 0
            /\ f.opClient # f.startClient =>
                   \E d \in Callers \ {c} : wr[d].created > 0

C3_Witness ==
    \E c \in Callers :
        /\ wr[c].pc = "returned"
        /\ wr[c].poolFails = 2
        /\ wr[c].hardFails = 0
        /\ wr[c].invocations = 3
        /\ wr[c].opClient # wr[c].startClient

\* C4: whenever the operation is being invoked, every unreachable-class
\* failure the call has seen so far had exactly one replacement invoked for
\* it and each of those invocations has returned; a call never invokes more
\* replacements than it saw unreachable-class failures.
C4_OneReplacementBeforeRetry ==
    \A c \in Callers :
        LET f == wr[c] IN
        /\ f.recreateCalls <= f.hardFails
        /\ f.pc = "op" => /\ f.recreateCalls = f.hardFails
                          /\ f.recreateReturns = f.recreateCalls

C4_Witness ==
    \E c \in Callers :
        /\ wr[c].pc = "op"
        /\ wr[c].attempt = 3
        /\ wr[c].hardFails = 2
        /\ wr[c].lastError = ErrReachMsg

\* C5: at most one caller is inside the replacement at any instant, and it
\* holds the flag; a recreatePrismaClient call that found the flag set
\* constructs no client; every client beyond the first was constructed by a
\* call that did not wait.
C5_ReplacementMutualExclusion ==
    /\ Cardinality(Performers) <= 1
    /\ Performers # {} => isRecreating
    /\ \A c \in Callers : wr[c].created + wr[c].waited <= wr[c].recreateCalls
    /\ clients = 1 + SumCreated(Callers)

C5_Witness ==
    \E c, d \in Callers :
        /\ c # d
        /\ wr[c].pc = "rc_connect"
        /\ wr[d].pc = "rc_wait"
        /\ wr[d].created = 0

\* C6 (as claimed): a caller waiting on a replacement eventually leaves the
\* wait and goes on to its retry, and the flag, once set, is eventually
\* reset.
C6_WaiterProgress ==
    /\ \A c \in Callers : (wr[c].pc = "rc_wait") ~> (wr[c].pc = "sleep")
    /\ isRecreating ~> ~isRecreating

(***************************************************************************)
(* Properties of startup.                                                  *)
(***************************************************************************)
\* C7: connectWithRetry always returns, and returns a boolean: true right
\* after the first connect that succeeds (no attempt follows it), false
\* after exactly maxRetries connects that all failed.
C7_ConnectWithRetry ==
    /\ [](st.result = "true" =>
             /\ st.connectCalls = st.connectFails + 1
             /\ st.connectCalls <= st.maxRetries
             /\ isConnected)
    /\ [](st.result = "false" =>
             /\ st.connectFails = st.maxRetries
             /\ st.connectCalls = st.maxRetries)
    /\ [](st.pc = "backoff" => st.connectCalls = st.connectFails)
    /\ (st.variant = "connectFirst") ~> (st.result \in {"true", "false"})

C7_Witness ==
    /\ st.result = "false"
    /\ st.maxRetries = MaxConnectAttempts
    /\ st.connectFails = MaxConnectAttempts

\* C8: in every startup the server eventually listens, and it is never the
\* case that startup has ended without it.
C8_StartupLiveness ==
    /\ <>(st.listening)
    /\ [](st.pc # "exited")

C8_Witness ==
    /\ st.listening
    /\ st.variant = "connectFirst"
    /\ st.result = "false"
    /\ st.connectFails = MaxConnectAttempts

(***************************************************************************)
(* Properties of the forms controller.                                     *)
(***************************************************************************)
\* C9 (as claimed): a list, create, update or export request whose store
\* round trip failed with a pool-exhaustion or unreachable-class error,
\* while a later attempt within the retry bound would have succeeded, does
\* not end in a failure response.
C9_TransientFaultsInvisible ==
    (/\ rq.pc = "done"
     /\ rq.op \in {"list", "create", "update", "export"}
     /\ rq.faults > 0
     /\ rq.outageAtCall < DefaultMaxRetries) => rq.status # 500

AllSpaces(s) == \A i \in 1..Len(s) : s[i] = " "
AllDigits(s) == \A i \in 1..Len(s) : IsDigit(s[i])

\* the always-required fields are there
HasRequired(type, body) ==
    \A k \in Required(type) :
        Get(body, k).t = "string" /\ ~AllSpaces(Get(body, k).s)

\* the fields strict validation requires (section 4.3: every field the
\* paper form expects) that the body leaves out: absent, empty or, where
\* the field is text that is trimmed, blank
MissingStrict(type, body) ==
    {k \in Trimmed(type) \cup Untrimmed(type) \cup Positive(type) :
        LET v == Get(body, k) IN
        \/ v.t \in {"undefined", "null"}
        \/ v.t = "string" /\ v.s = <<>>
        \/ v.t = "string" /\ k \in Trimmed(type) /\ AllSpaces(v.s)}

\* every field the body carries is a string; a count is empty or a decimal
\* literal in the field's range and not above Number.MAX_VALUE; a signature
\* is empty or an image data URI
\* of at most maxSize characters
WellFormed(type, body) ==
    \A k \in DOMAIN body :
        /\ body[k].t = "string"
        /\ k \in Counted(type) /\ body[k].s # <<>> =>
              /\ AllDigits(body[k].s) /\ ~Overflows(body[k].s)
              /\ k \in Positive(type) => DecimalValue(body[k].s) > 0
        /\ k \in Signatures(type) /\ body[k].s # <<>> =>
              /\ Head(body[k].s) = DataImage
              /\ length(body[k].s) <= maxSize

\* the request's route names a row of the route's type
RowOfType ==
    rq.id \in Ids /\ store[rq.id].type = normalizeType(rq.type)

\* the store call of the request failed and the handler answered 500
FailedRoundTrip == rq.status = 500 /\ rq.faults > 0

\* the request wrote row rq.id and sent the redirect
Saved ==
    /\ rq.status = 302
    /\ rq.written = 1
    /\ RowOfType
    /\ origin[rq.id] = [op |-> rq.op, src |-> rq.src, action |-> rq.action]

\* strict validation rejected the export with exactly these keys, and the
\* renderer was not called
RejectedWith(keys) ==
    /\ rq.status = 302
    /\ rq.location = "list?exportError=1"
    /\ rq.strict
    /\ Keys(rq.errors) = keys
    /\ rq.rendered = 0

FailsStrict(id) ==
    LET type == CHOOSE t \in VALID_TYPES : normalizeType(t) = store[id].type
    IN  Keys(validateFormData(type, store[id].data, TRUE).errors) # {}

Passes(type, body, strict) ==
    LET result == validateFormData(type, body, strict)
    IN  ~result.threw /\ Keys(result.errors) = {}

\* the create request added exactly one row, the one its response names,
\* and redirected to the export of that row when the action asks for it
CreatedOne ==
    /\ rq.status = 302
    /\ rq.written = 1
    /\ Len(store) = rq.rows + 1
    /\ rq.id = Len(store)
    /\ store[rq.id].type = normalizeType(rq.type)
    /\ origin[rq.id] = [op |-> "create", src |-> rq.src, action |-> rq.action]
    /\ rq.location = IF rq.action = "export" THEN "pdf" ELSE "list"

SubmittedErrors ==
    validateFormData(rq.type, Body(rq.src, rq.type), rq.action = "export").errors

\* C13: a create or update request whose validation returned a non-empty
\* error map has written nothing and has answered with the form, rendered
\* with the body as it was submitted and with that error map; the step that
\* answers so leaves the store as it was, and the store changes only in a
\* step that ends the write of a request whose validation returned no error.
C13_RejectedNeverPersisted ==
    /\ []((/\ rq.op \in {"create", "update"}
           /\ rq.validations = 1
           /\ Keys(SubmittedErrors) # {}) =>
              /\ rq.pc = "done"
              /\ rq.status = 200
              /\ rq.view = IF rq.op = "create" THEN "forms/new" ELSE "forms/edit"
              /\ rq.errors = SubmittedErrors
              /\ rq.formData = Body(rq.src, rq.type)
              /\ rq.written = 0
              /\ Len(store) = rq.rows)
    /\ [][/\ (rq'.op \in {"create", "update"} /\ rq'.errors # {}) =>
                store' = store
          /\ store' # store =>
                /\ rq.pc \in {"create", "update"}
                /\ Keys(SubmittedErrors) = {}
                /\ rq'.status = 302]_vars

C13_Witness ==
    /\ rq.op = "update" /\ rq.pc = "done" /\ RowOfType
    /\ rq.action = "export"
    /\ rq.status = 200 /\ rq.view = "forms/edit"
    /\ Keys(rq.errors) = {"mobileNo"}
    /\ rq.formData = input.body
    /\ origin[rq.id] = [op |-> "create", src |-> "input", action |-> "save"]

\* the request names a row that is stored under another type than the
\* request's own
Mismatched(r) ==
    /\ r.op = "update"
    /\ r.type \in VALID_TYPES
    /\ r.id \in Ids
    /\ store[r.id].type # normalizeType(r.type)

\* C14: no step changes the type of a stored row; an update request whose
\* type is not the type the row with its id is stored under is answered
\* with the not-found page (unless the lookup itself failed), validates and
\* writes nothing, and no step of it changes the store.
C14_TypeImmutable ==
    /\ []((Mismatched(rq) /\ rq.pc = "done" /\ rq.faults = 0) =>
              /\ rq.status = 404
              /\ rq.view = "404"
              /\ rq.validations = 0
              /\ rq.written = 0)
    /\ [][/\ \A id \in Ids :
                /\ id \in Ids'
                /\ store'[id].type = store[id].type
          /\ (Mismatched(rq) \/ Mismatched(rq)') => store' = store]_vars

C14_Witness ==
    /\ Mismatched(rq) /\ rq.pc = "done"
    /\ rq.type = OtherType(input.type)
    /\ rq.status = 404
    /\ store[rq.id].type = normalizeType(input.type)
    /\ Passes(rq.type, Body(rq.src, rq.type), FALSE)
    /\ origin[rq.id].op = "update"

CanonicalKeys(type) ==
    {"employeeSignature", "employeeSignatureDate", "managerSignature",
     "managerSignatureDate", "hrSignature", "hrSignatureDate"}
    \cup CASE type = "rejoining" ->
               {"name", "wrokId", "mobileNo", "designation", "leaveType",
                "dateOfLeaving", "dateOfJoining", "totalLeave", "allowedLeave",
                "extraLeave", "passportNo", "passportHandedOver"}
            [] type = "leave-expats" ->
               {"employeeName", "employeeId", "formDate", "position", "site",
                "mobileNo", "leaveType", "commenceLeave", "totalDays",
                "lastDayLeave", "airportName", "paymentOption", "ticketOption"}
            [] type = "leave-omani" ->
               {"employeeName", "employeeId", "formDate", "position", "site",
                "mobileNo", "leaveType", "commenceLeave", "totalDays",
                "lastDayLeave"}

\* the type a row of the store was created under
TypeOf(row) == CHOOSE t \in VALID_TYPES : normalizeType(t) = row.type

\* C16: in either mode, when validation of the body the user is about to
\* submit returns no error (looked at before the first request; the body
\* does not change afterwards), the keys of validatedData are the canonical
\* keys of the type, no more (a key the type does not define is dropped)
\* and no fewer; the payload a handler is about to write, and the data of
\* every stored row, have exactly the canonical keys of their type.
C16_CanonicalPayload ==
    /\ rq.pc = "idle" =>
          \A strict \in BOOLEAN :
              Passes(input.type, input.body, strict) =>
                  DOMAIN validateFormData(input.type, input.body,
                                          strict).validatedData
                      = CanonicalKeys(input.type)
    /\ rq.pc \in {"create", "update"} => DOMAIN rq.data = CanonicalKeys(rq.type)
    /\ \A id \in Ids : DOMAIN store[id].data = CanonicalKeys(TypeOf(store[id]))

C16_Witness ==
    /\ UnknownKey \in DOMAIN input.body
    /\ Passes(input.type, input.body, TRUE)
    /\ rq.op = "create" /\ rq.pc = "done" /\ rq.src = "input"
    /\ CreatedOne
    /\ UnknownKey \notin DOMAIN store[rq.id].data
    /\ DOMAIN store[rq.id].data = CanonicalKeys(input.type)

\* the normalised form of the body the request submitted
NormalisedBody ==
    validateFormData(rq.type, Body(rq.src, rq.type),
                     rq.action = "export").validatedData

\* C17 (as claimed): after a create request has persisted the payload it
\* was given, the row loaded by the id the request returned has data equal
\* to the validation-normalised form of that payload.
C17_RoundTrip ==
    (rq.op = "create" /\ rq.pc = "done" /\ CreatedOne) =>
        \A row \in findUnique(rq.id) : row.data = NormalisedBody

\* C18 (as claimed): in either mode validateFormData returns its pair for
\* the submitted body, whatever the fields hold, and does not throw; so no
\* create or update request whose store calls all succeeded ends in the
\* handler's catch block.
C18_ValidationNeverThrows ==
    /\ \A strict \in BOOLEAN :
          ~validateFormData(input.type, input.body, strict).threw
    /\ (/\ rq.op \in {"create", "update"}
        /\ rq.pc = "done"
        /\ rq.validations = 1
        /\ rq.faults = 0) => rq.status # 500

\* a submitted count that is not a number, or is a negative one
Signed(s) == s # <<>> /\ Head(s) = "-" /\ Tail(s) # <<>> /\ AllDigits(Tail(s))
NonNumeric(v) ==
    /\ v.t = "string"
    /\ trim(v.s) # <<>>
    /\ ~AllDigits(trim(v.s))
    /\ ~Signed(trim(v.s))
Negative(v) ==
    /\ v.t = "string" /\ Signed(trim(v.s))
    /\ Overflows(trim(v.s)) \/ DecimalValue(Tail(trim(v.s))) > 0

\* C19 (as claimed): a create or update request whose body gives a count
\* field (totalLeave, allowedLeave, extraLeave, totalDays) a value that is
\* not a number, or a negative number, gets an error for that field and
\* writes nothing; and no stored row holds anything but a number that is
\* not negative in a count field.
C19_NumericRejected ==
    /\ (rq.op \in {"create", "update"} /\ rq.pc = "done" /\ rq.validations = 1) =>
          \A k \in Counted(rq.type) :
              LET v == Get(Body(rq.src, rq.type), k) IN
              (NonNumeric(v) \/ Negative(v)) =>
                  k \in Keys(rq.errors) /\ rq.written = 0
    /\ \A id \in Ids : \A k \in Counted(TypeOf(store[id])) :
          store[id].data[k].t = "number" /\ store[id].data[k].n >= 0

\* an embedded image of fewer than `bound` characters
ImageUnder(v, bound) ==
    v.t = "string" /\ startsWith(v.s, DataImage) /\ length(v.s) < bound

\* a submitted signature that is neither left out, nor empty, nor an
\* embedded image of fewer than `bound` characters
BadSignature(v, bound) == Truthy(v) /\ ~ImageUnder(v, bound)

Without(body, k) == [j \in DOMAIN body \ {k} |-> body[j]]

\* every signature of every stored row is empty or an image under `bound`
StoredSignaturesUnder(bound) ==
    \A id \in Ids : \A k \in Signatures(TypeOf(store[id])) :
        store[id].data[k] = EmptyString \/ ImageUnder(store[id].data[k], bound)

\* in either mode a bad signature in field k of the submitted body gives an
\* error for k and the empty value in validatedData, and the errors of the
\* other fields are those the body gets without k
BadSignatureIsFieldError(bound) ==
    \A strict \in BOOLEAN : \A k \in Signatures(input.type) :
        BadSignature(Get(input.body, k), bound) =>
            LET result == validateFormData(input.type, input.body, strict)
                others == validateFormData(input.type, Without(input.body, k),
                                           strict)
            IN  /\ ~result.threw
                /\ k \in Keys(result.errors)
                /\ result.validatedData[k] = EmptyString
                /\ {e \in result.errors : e.field # k} = others.errors

\* C20 (as claimed): each signature of every stored row is empty or an
\* embedded image whose length is under 500 * 1024, and a signature that
\* is malformed or not under that size gives an error for its field, is
\* replaced by the empty value and leaves the errors of the other fields
\* as they are.
C20_SignatureBound ==
    /\ StoredSignaturesUnder(500 * 1024)
    /\ BadSignatureIsFieldError(500 * 1024)

\* the body holds the always-required fields, each with text in it, and
\* nothing else
OnlyRequired(type, body) == DOMAIN body = Required(type) /\ HasRequired(type, body)

\* the fields strict validation asks for besides the always-required ones
StrictlyRequired(type) ==
    CASE type = "rejoining" ->
            {"mobileNo", "designation", "leaveType", "dateOfLeaving",
             "dateOfJoining", "totalLeave", "passportNo", "passportHandedOver"}
      [] type = "leave-expats" ->
            {"formDate", "position", "site", "mobileNo", "leaveType",
             "commenceLeave", "totalDays", "lastDayLeave", "airportName",
             "paymentOption", "ticketOption"}
      [] type = "leave-omani" ->
            {"formDate", "position", "site", "mobileNo", "leaveType",
             "commenceLeave", "totalDays", "lastDayLeave"}

\* the payload of a body with only the always-required fields: these
\* trimmed, every count 0, every other field the empty string
Defaulted(type, body) ==
    [k \in CanonicalKeys(type) |->
        IF k \in DOMAIN body THEN Str(trim(body[k].s))
        ELSE IF k \in {"totalLeave", "allowedLeave", "extraLeave", "totalDays"}
        THEN Num(0)
        ELSE EmptyString]

\* C21: a create request that is not an export and submits only the
\* always-required fields of its type persists a row (unless the store
\* call fails) whose data has every count at 0 and every other optional
\* field empty; an export of the row that such a body was saved in is
\* rejected by strict validation (unless the lookup fails) with exactly the
\* other strictly-required fields as the fields in error, and the renderer
\* is not called.
C21_LenientDefaults ==
    /\ (/\ rq.op = "create" /\ rq.pc = "done"
        /\ rq.type \in VALID_TYPES
        /\ rq.action # "export"
        /\ OnlyRequired(rq.type, Body(rq.src, rq.type))) =>
           \/ /\ CreatedOne
              /\ rq.errors = {}
              /\ store[rq.id].data = Defaulted(rq.type, Body(rq.src, rq.type))
           \/ FailedRoundTrip
    /\ (/\ rq.op = "export" /\ rq.pc = "done" /\ RowOfType
        /\ origin[rq.id].action # "export"
        /\ OnlyRequired(rq.type, Body(origin[rq.id].src, rq.type))) =>
           \/ RejectedWith(StrictlyRequired(rq.type))
           \/ FailedRoundTrip

C21_Witness ==
    /\ rq.op = "export" /\ rq.pc = "done" /\ RowOfType
    /\ rq.type = "rejoining"
    /\ origin[rq.id] = [op |-> "create", src |-> "input", action |-> "save"]
    /\ input.body = Minimal("rejoining")
    /\ store[rq.id].data["totalLeave"] = Num(0)
    /\ store[rq.id].data["mobileNo"] = EmptyString
    /\ RejectedWith(StrictlyRequired("rejoining"))

(***************************************************************************)
(* Properties of getDisplayNameForFile.                                    *)
(***************************************************************************)
\* the characters a file name may hold
SafeChars ==
    {"a", "A", "x", "X", "0", "1", "2", "3", "4", "5", "6", "7", "8", "9",
     " ", "_", ".", "-"}

\* the display name the row's data holds, or <<>> when it holds none
DisplayNameOf(type, data) ==
    IF NameKey(type) \in DOMAIN data /\ data[NameKey(type)].t = "string"
    THEN data[NameKey(type)].s
    ELSE <<>>

\* nothing is left of the name once the unsafe characters and the white
\* space around the rest are taken away
SanitizesToNothing(name) ==
    \A i \in 1..Len(name) : name[i] \notin SafeChars \ {" "}

\* C22: the name part getDisplayNameForFile returns holds only letters,
\* digits, spaces, underscores, periods and hyphens, is at most 80
\* characters long, and is the id of the row when the data holds no display
\* name or one of which sanitizing leaves nothing.
C22_FilenameSanitized ==
    rq.pc = "named" =>
        LET out == rq.filename.s
            name == DisplayNameOf(input.type, input.body)
        IN  /\ rq.filename.t = "string"
            /\ \A i \in 1..Len(out) : out[i] \in SafeChars
            /\ Len(out) <= 80
            /\ SanitizesToNothing(name) => out = NatToString(rq.id)

C22_Witness ==
    /\ rq.pc = "named"
    /\ input.type = "rejoining"
    /\ DisplayNameOf(input.type, input.body) = <<"/">> \o Run(81, "a")
    /\ rq.filename = Str(Run(80, "a"))

(***************************************************************************)
(* Properties of exports.list.                                             *)
(***************************************************************************)
\* the list request has been answered with the page of rows
Listed == rq.op = "list" /\ rq.pc = "done" /\ rq.status = 200

DayUtc(t) == t \div 24
DayLocal(t) == (t + clock.tz) \div 24

\* the day is within the dates of the query, both ends included
InRange(day) ==
    /\ rq.from # 0 => day >= rq.from
    /\ rq.to # 0 => day <= rq.to

\* the row is of the request's type and has the search string, whatever
\* the case of the letters, in one of the four fields
Sought(row) ==
    /\ row.type = normalizeType(rq.type)
    /\ Truthy(rq.search) =>
          \E k \in {"name", "employeeName", "employeeId", "wrokId"} \cap DOMAIN row.data :
              /\ row.data[k].t = "string"
              /\ includes(toLowerCase(row.data[k].s), toLowerCase(rq.search.s))

IsListed(id) == \E i \in 1..Len(rq.listed) : rq.listed[i] = id

\* C24 (as claimed): a list request is answered with the rows of its type
\* that have the search string and were created within the dates of the
\* query, newest first.  The date of createdAt is read either way: a row
\* whose day is in the range both in UTC and in the server's time zone is
\* listed, and a row that is listed has its day in the range in UTC or in
\* the server's time zone.
C24_ListFiltering ==
    Listed =>
        /\ \A id \in Ids :
              (/\ Sought(store[id])
               /\ InRange(DayUtc(store[id].createdAt))
               /\ InRange(DayLocal(store[id].createdAt))) => IsListed(id)
        /\ \A i \in 1..Len(rq.listed) :
              /\ rq.listed[i] \in Ids
              /\ Sought(store[rq.listed[i]])
              /\ \/ InRange(DayUtc(store[rq.listed[i]].createdAt))
                 \/ InRange(DayLocal(store[rq.listed[i]].createdAt))
        /\ \A i, j \in 1..Len(rq.listed) :
              i < j =>
                 /\ rq.listed[i] # rq.listed[j]
                 /\ store[rq.listed[i]].createdAt >= store[rq.listed[j]].createdAt

(***************************************************************************)
(* Properties of the export and its renderer.                              *)
(***************************************************************************)
\* C25 (as claimed): an export request whose call of the renderer failed
\* is answered by sending the user back to the list with the export-error
\* flag set, and not with an error status and a bare message.
C25_RenderFaultRecoverable ==
    (/\ rq.op = "export" /\ rq.pc = "done"
     /\ rq.rendered = 1
     /\ rq.view # "application/pdf") =>
        /\ rq.status = 302
        /\ rq.location = "list?exportError=1"

\* the invocation has settled after it launched an engine
SettledAfterLaunch == pdf.pc = "settled" /\ pdf.browser # "none"

\* C26 (as claimed): when a generatePDF invocation that launched an engine
\* instance settles, by returning the PDF or by rejecting, the instance has
\* been closed; no engine instance is left running between invocations.
C26_EngineTeardown ==
    /\ SettledAfterLaunch => pdf.browser = "closed"
    /\ pdf.pc = "settled" => pdf.engines = 0

\* C27 (as claimed): when anything failed inside a generatePDF invocation
\* (the type, the read of the logo, the template, the search for the
\* executable, the launch, an await on the page), the invocation rejects
\* with the one wrapped error and its message, and returns no PDF buffer.
C27_SingleRendererFailure ==
    (pdf.pc = "settled" /\ pdf.failed # {}) =>
        /\ pdf.result = "rejected"
        /\ pdf.message # <<>>
        /\ pdf.message[1] = "Failed to generate PDF: "

(***************************************************************************)
(* Properties of the requests that name no record                          *)
(***************************************************************************)
\* the finished request is about one record
AboutOneRecord == rq.op \in {"edit", "update", "export"} /\ rq.pc = "done"

UnknownType == rq.type \notin VALID_TYPES
UnknownId == rq.id \notin Ids
TypeMismatch == rq.id \in Ids /\ store[rq.id].type # normalizeType(rq.type)

\* the response carries nothing of a record
NoRecordData ==
    /\ rq.view \in {"404", "text"}
    /\ rq.formData = EmptyObject
    /\ rq.listed = <<>>
    /\ rq.filename = EmptyString
    /\ rq.location = ""

\* C28: a finished edit, update or export request with an unknown type, an
\* unknown id or an id whose row is of another type has written nothing and
\* has not called the renderer; unless its lookup was rejected by the store,
\* its response is 404 with nothing of a record in it; with an unknown type
\* it has made no store call and the response is always the 404.
C28_NotFound ==
    (AboutOneRecord /\ (UnknownType \/ UnknownId \/ TypeMismatch)) =>
        /\ rq.written = 0 /\ Len(store) = rq.rows
        /\ rq.rendered = 0 /\ rq.validations = 0
        /\ rq.faults = 0 => (rq.status = 404 /\ NoRecordData)
        /\ UnknownType => (rq.calls = 0 /\ rq.faults = 0)

\* an update that names an existing row of another type was answered 404
\* after its lookup
C28_Witness ==
    /\ AboutOneRecord /\ rq.status = 404 /\ store # <<>>
    /\ rq.op = "update" /\ TypeMismatch /\ rq.calls = 1

(***************************************************************************)
(* Properties of concurrent updates                                        *)
(***************************************************************************)
\* the payload of an update of the stored row from `src`, validated anew
PayloadOf(src) ==
    Persisted(validateFormData(input.type, Body(src, input.type),
                               FALSE).validatedData)

\* both requests are finished updates of row 1 that wrote
BothWrote ==
    /\ rq.op = "update" /\ rq.pc = "done" /\ rq.written = 1
    /\ other.op = "update" /\ other.pc = "done" /\ other.written = 1

\* C29: whatever the interleaving of two updates of one row, once the row
\* was written by an update its data is the whole validated payload of the
\* update that wrote last, which is the payload of one of the two requests
\* when both wrote; and a finished update was answered by its own
\* validation alone: redirected after its write, or shown its own errors.
C29_LastWriterWins ==
    /\ origin[1].op = "update" => store[1].data = PayloadOf(origin[1].src)
    /\ BothWrote =>
          /\ store[1].data \in {Persisted(rq.data), Persisted(other.data)}
          /\ rq.data = validateFormData(input.type, Body(rq.src, input.type),
                                        FALSE).validatedData
    /\ (rq.op = "update" /\ rq.pc = "done") =>
          \/ rq.status = 302 /\ rq.written = 1
          \/ /\ rq.status = 200 /\ rq.written = 0
             /\ rq.errors = validateFormData(input.type,
                                  Body(rq.src, input.type), FALSE).errors
             /\ rq.errors # {}

\* two updates with different payloads overlapped, and the one that began
\* first wrote last: the row holds its payload, not the other's
C29_Witness ==
    /\ BothWrote
    /\ other.concurrent /\ ~rq.concurrent
    /\ rq.src # other.src
    /\ Persisted(rq.data) # Persisted(other.data)
    /\ origin[1].src = rq.src
    /\ store[1].data = Persisted(rq.data)

(***************************************************************************)
(* Properties of the forwarding handle                                     *)
(***************************************************************************)
\* C30: whenever a caller's queryFn is invoked, on the first attempt or on
\* a retry, the operation is given the client that is current at that
\* moment, which is the newest client created; so an operation started
\* after a replacement never runs on a replaced client.
C30_StableIndirection ==
    [][\A c \in Callers :
          wr'[c].invocations # wr[c].invocations =>
              /\ wr'[c].opClient = activePrisma'
              /\ wr'[c].opClient = clients'
              /\ wr'[c].opClient >= wr'[c].startClient]_vars

\* a retry runs on a client that replaced the one its withRetry call began
\* with, the replacement having been made by the other caller
C30_Witness ==
    \E c \in Callers :
        /\ wr[c].pc = "op" /\ wr[c].attempt > 1
        /\ wr[c].created = 0
        /\ wr[c].opClient > wr[c].startClient
        /\ wr[c].opClient = activePrisma

(***************************************************************************)
(* Properties of getDatasourceUrl                                          *)
(***************************************************************************)
\* DATABASE_URL is a URL as it is, or between two double quotes, or between
\* two single quotes
PlainOrQuoted ==
    /\ datasource.open \in {<<>>, <<DoubleQuote>>, <<SingleQuote>>}
    /\ datasource.close = datasource.open

\* the value of parameter `name` in the query of `url`, when it has just one
ValuesOf(url, name) ==
    {url.query[i].v : i \in {j \in 1..Len(url.query) : url.query[j].k = name}}

HasOne(url, name, value) ==
    /\ ValuesOf(url, name) = {value}
    /\ Cardinality({j \in 1..Len(url.query) : url.query[j].k = name}) = 1

\* C31 (as claimed): for a DATABASE_URL that is a parseable URL, plain or
\* between quotes, whatever its parameters, the URL returned has no quote
\* before it, has connection_limit=5, pool_timeout=0, connect_timeout=60
\* and sslmode=require once each, has pgbouncer=true when the port is 6543
\* and otherwise the pgbouncer parameters it came with; and the function
\* applied to the URL it returned returns the same URL.
C31_UrlNormalized ==
    (PlainOrQuoted /\ datasource.pc \in {"url", "again"}) =>
        /\ datasource.url.pre = <<>>
        /\ HasOne(datasource.url, "connection_limit", <<"5">>)
        /\ HasOne(datasource.url, "pool_timeout", <<"0">>)
        /\ HasOne(datasource.url, "connect_timeout", <<"6", "0">>)
        /\ HasOne(datasource.url, "sslmode", <<"require">>)
        /\ IF datasource.url.port = "6543"
           THEN HasOne(datasource.url, "pgbouncer", <<"true">>)
           ELSE ValuesOf(datasource.url, "pgbouncer")
                    = ValuesOf(datasource.bare, "pgbouncer")
        /\ datasource.pc = "again" => datasource.again = datasource.url

(***************************************************************************)
(* Properties of the client replacement                                    *)
(***************************************************************************)
\* caller c's recreatePrismaClient call takes a step from `pc`
RecreateStep(c, pc) == wr[c].pc = pc /\ wr'[c].pc # pc

\* C32: $disconnect() of the old client settling either way leads on to a
\* client that was not there before, which becomes the active one, unless
\* the constructor itself throws; $connect() of the new client settling
\* either way ends the call by returning into withRetry, never by a
\* rejection, with the mutex released, the new client still the active one
\* and distinct from the one the failed operation ran on, and isConnected
\* true exactly when that connect succeeded.
C32_BestEffortReplacement ==
    [][\A c \in Callers :
          /\ RecreateStep(c, "rc_disconnect") =>
                \/ /\ wr'[c].pc = "rc_connect"
                   /\ activePrisma' \notin 1..clients
                   /\ activePrisma' = clients'
                   /\ ~isConnected'
                \/ /\ wr'[c].pc = "rejected"
                   /\ wr'[c].thrown = ErrConstructor
          /\ RecreateStep(c, "rc_connect") =>
                /\ wr'[c].pc = "sleep"
                /\ wr'[c].thrown = NoError
                /\ wr'[c].recreateReturns = wr[c].recreateReturns + 1
                /\ ~isRecreating'
                /\ activePrisma' = clients' /\ activePrisma' > wr[c].opClient
                /\ isConnected' <=> wr'[c].connected = "yes"]_vars

\* the close of the old client failed and the connect of the new one
\* failed, and the call returned: the caller waits for its next attempt on
\* a new client that is not connected
C32_Witness ==
    \E c \in Callers :
        /\ wr[c].pc = "sleep"
        /\ wr[c].closed = "no" /\ wr[c].connected = "no"
        /\ wr[c].recreateReturns = 1 /\ wr[c].created = 1
        /\ activePrisma > wr[c].opClient
        /\ ~isConnected /\ ~isRecreating

(***************************************************************************)
(* Properties of the connect backoff                                       *)
(***************************************************************************)
\* min(3000 * 2^(k-1), 30000)
Schedule(k) == IF 3000 * 2^(k - 1) < 30000 THEN 3000 * 2^(k - 1) ELSE 30000

\* C33: in connectWithRetry the k-th wait, which follows the k-th failed
\* attempt, is min(3000 * 2^(k-1), 30000) ms: the first is 3000, each next
\* is the double of the one before or 30000, none is shorter than the one
\* before or longer than 30000; there are as many waits as failed attempts
\* except that the last attempt allowed is followed by none.
C33_BackoffSchedule ==
    (st.variant = "connectFirst" /\ st.maxRetries >= 1) =>
        /\ \A k \in 1..Len(st.waits) :
              /\ st.waits[k] = Schedule(k)
              /\ st.waits[k] <= 30000
              /\ k = 1 => st.waits[k] = 3000
              /\ k > 1 => /\ st.waits[k] >= st.waits[k - 1]
                          /\ st.waits[k] \in {2 * st.waits[k - 1], 30000}
        /\ Len(st.waits) = IF st.connectFails < st.maxRetries
                           THEN st.connectFails ELSE st.maxRetries - 1
        /\ st.pc = "backoff" => st.attempt < st.maxRetries

\* every attempt allowed failed, more than five of them: the fifth wait
\* was the first of 30000 ms and no wait followed the last attempt
C33_Witness ==
    /\ st.variant = "connectFirst" /\ st.result = "false"
    /\ st.maxRetries > 5 /\ st.connectFails = st.maxRetries
    /\ Len(st.waits) = st.maxRetries - 1
    /\ st.waits[4] = 24000 /\ st.waits[5] = 30000

(***************************************************************************)
(* Properties of the order of rendering                                    *)
(***************************************************************************)
\* `step` resolved before the capture was asked for
BeforeCapture(step) ==
    \E i, j \in 1..Len(pdf.steps) :
        i < j /\ pdf.steps[i] = step /\ pdf.steps[j] = "pdf"

\* the capture has been asked for, or has resolved
Capturing == pdf.pc = "pdf" \/ pdf.pdfBuffer

\* C34: when generatePDF asks the page for the PDF, and so whenever it
\* holds or returns a buffer, the content was set and had reached load,
\* DOMContentLoaded and network idle, document.fonts.ready had resolved and
\* the medium had been switched to print, in that order and each once.
C34_RenderOrdering ==
    /\ Capturing =>
          /\ Len(pdf.steps) >= 4
          /\ SubSeq(pdf.steps, 1, 4)
                = <<"newPage", "setContent", "evaluateHandle", "emulateMediaType">>
          /\ {"load", "domcontentloaded", "networkidle0"} \subseteq pdf.waitUntil
    /\ pdf.pdfBuffer =>
          /\ Len(pdf.steps) = 5
          /\ BeforeCapture("setContent") /\ BeforeCapture("evaluateHandle")
          /\ BeforeCapture("emulateMediaType")
    /\ pdf.result = "resolved" => pdf.pdfBuffer

\* an invocation returned the buffer
C34_Witness ==
    /\ pdf.pc = "settled" /\ pdf.result = "resolved" /\ pdf.pdfBuffer
    /\ pdf.steps[5] = "pdf" /\ pdf.steps[3] = "evaluateHandle"

(***************************************************************************)
(* Properties of the counts of one withRetry call                          *)
(***************************************************************************)
\* the call's operation is not pending and the call is not between attempts
Settled(f) == f.pc \in {"returned", "rejected"}

\* C35: a withRetry call with maxRetries >= 1 has invoked its operation at
\* least once and at most maxRetries times, one invocation per attempt; it
\* has asked for at most maxRetries - 1 replacements and constructed at
\* most that many clients, and waited at most maxRetries - 1 times; each
\* replacement or wait follows a failed attempt that was not the last
\* allowed; and a call whose first invocation succeeded has invoked once,
\* not waited and not asked for a replacement.
C35_AttemptBounds ==
    \A c \in Callers :
        LET f == wr[c] IN
        f.pc # "idle" =>
            /\ f.maxRetries >= 1
            /\ f.invocations >= 1 /\ f.invocations <= f.maxRetries
            /\ f.invocations = f.attempt
            /\ f.recreateCalls <= f.maxRetries - 1
            /\ f.created <= f.recreateCalls
            /\ f.delays <= f.maxRetries - 1
            /\ f.recreateCalls <= f.hardFails
            /\ f.attempt = f.maxRetries => (Settled(f) \/ f.pc = "op")
            /\ (Settled(f) \/ f.pc = "op") =>
                  /\ f.delays <= f.attempt - 1
                  /\ f.thrown # ErrConstructor => f.recreateCalls <= f.attempt - 1
            /\ (f.pc = "returned"
                  /\ f.poolFails + f.hardFails + f.otherFails = 0) =>
                  /\ f.invocations = 1 /\ f.delays = 0
                  /\ f.recreateCalls = 0 /\ f.created = 0

\* every attempt allowed failed with an unreachable-class error: as many
\* invocations as attempts allowed, one replacement less, and the error is
\* thrown after the last without a wait
C35_Witness ==
    \E c \in Callers :
        /\ wr[c].pc = "rejected" /\ wr[c].maxRetries = MaxAttempts
        /\ wr[c].invocations = MaxAttempts
        /\ wr[c].hardFails = MaxAttempts
        /\ wr[c].recreateCalls = MaxAttempts - 1
        /\ wr[c].delays = MaxAttempts - 1

(***************************************************************************)
(* Properties of which client a replacement discards                       *)
(***************************************************************************)
\* some caller's latest operation ran on client x and failed with an
\* unreachable-class error
FailedOn(x) ==
    \E d \in Callers :
        /\ wr[d].opClient = x
        /\ wr[d].pc \notin {"idle", "op", "returned"}
        /\ UnreachableClass(wr[d].lastError)

\* C36 (as claimed): in the step in which a replacement puts a new client
\* in the place of the active one, some operation has failed with an
\* unreachable-class error on the client that is discarded.
C36_HealthyNotDiscarded ==
    [][\A c \in Callers :
          (RecreateStep(c, "rc_disconnect") /\ activePrisma' # activePrisma) =>
              FailedOn(activePrisma)]_vars

\* C37 (as claimed): when an attempt failed with an unreachable-class error
\* and the call goes on to its next attempt, the operation is invoked on a
\* client other than the one the failed attempt ran on, whether the caller
\* made the replacement itself or waited for another caller's.
C37_RetryOnOtherClient ==
    [][\A c \in Callers :
          (/\ wr'[c].invocations = wr[c].invocations + 1
           /\ wr[c].invocations >= 1
           /\ UnreachableClass(wr[c].lastError)) =>
              wr'[c].opClient # wr[c].opClient]_vars

(***************************************************************************)
(* Properties of validating what validation returned                       *)
(***************************************************************************)
\* the pair validateFormData returns for the submitted body in lenient mode
FirstPass == validateFormData(input.type, input.body, FALSE)

\* the pair it returns for the validatedData of that pair, in lenient mode
SecondPass == validateFormData(input.type, FirstPass.validatedData, FALSE)

\* the submitted body passes lenient validation
PassesLenient == ~FirstPass.threw /\ FirstPass.errors = {}

\* C38 (as claimed): for every type and every submitted body that passes
\* lenient validation, validating the validatedData it gave again in
\* lenient mode does not throw, returns no errors and returns a
\* validatedData equal to the first one.
C38_NormalizationIdempotent ==
    (input.type \in VALID_TYPES /\ PassesLenient) =>
        /\ ~SecondPass.threw
        /\ SecondPass.errors = {}
        /\ SecondPass.validatedData = FirstPass.validatedData

(***************************************************************************)
(* Properties of the export that follows a save with action 'export'       *)
(***************************************************************************)
\* the finished export request found a row of its type that was last
\* written by a create or update with action 'export'
ExportAfterSaveAndExport ==
    /\ rq.op = "export" /\ rq.pc = "done" /\ RowOfType
    /\ origin[rq.id].action = "export"

\* C39 (as claimed): an export request for a row that was last written by
\* a create or update with action 'export' validates the stored data in
\* strict mode with no errors and calls the renderer, unless the lookup of
\* the row was rejected by the store.
C39_SaveAndExport ==
    ExportAfterSaveAndExport =>
        \/ /\ rq.validations = 1 /\ rq.strict
           /\ rq.errors = {}
           /\ rq.rendered = 1
        \/ FailedRoundTrip
====
